---- MODULE Spec2Model ----
(***************************************************************************)
(* A model of the ts-inject dependency injection container:                *)
(* memoize (memoize.ts), Injectable / ClassInjectable / ConcatInjectable   *)
(* (Injectable.ts), Container (Container.ts) and PartialContainer          *)
(* (PartialContainer.ts).                                                  *)
(*                                                                         *)
(* The JavaScript heap is modelled by three growing sequences: the         *)
(* memoized wrappers (mem), the delegate closures they wrap (dels) and the *)
(* Container objects (cons).  An object's reference is its index.          *)
(***************************************************************************)
EXTENDS Integers, Sequences, FiniteSets, TLC

VARIABLES
    mem,    \* the memoized wrappers: [delegate, thisArg, memo]
    dels,   \* the delegate closures: [kind, fn, parent, sibs]
    cons,   \* the Containers: [factories, op, from, arg]
    pcs,    \* the PartialContainers: [injectables, tokens]
    ref,    \* the last reference given to a new object or array
    calls,  \* history: the user functions applied, as [m, d], in order
    last,   \* history: the latest call from outside and what it returned
    registry \* the PluginRegistry: [plugins, observers], and as history the
             \* register calls begun and the observer calls made, in order

vars == <<mem, dels, cons, pcs, ref, calls, last, registry>>

\* ------------------------------------------------------------------ bounds

\* Containers constructed in one behaviour (those built inside get included).
MaxContainers == 3
\* Containers constructed in one behaviour that merges or appends.
MaxComposed == 4
\* PartialContainers constructed in one behaviour.
MaxPartials == 2
\* User function applications in one behaviour.
MaxCalls == 3
\* PartialContainers where one PartialContainer groups two services.
MaxGrouped == 3
\* Depth of nested factory calls after which the JavaScript stack overflows.
MaxDepth == 12

\* ------------------------------------------------------------------ tokens

\* The tokens services are registered under.  toString is a token that is
\* also a name every JavaScript object inherits.
Keys == {"X", "V", "S", "toString"}

\* The order in which `for (const k in factories)` visits the keys.
KeySeq == <<"X", "V", "S", "toString">>

\* Container.ts:34
CONTAINER == "$container"

\* ------------------------------------------------------------------ values

\* Every JavaScript value is a record of one shape, so that any two values
\* compare.  ref is the reference of an object or array (=== compares it),
\* or the number of a number.
Val(tag, fn, args, r) == [tag |-> tag, fn |-> fn, args |-> args, ref |-> r]

Undefined == Val("undefined", "", <<>>, 0)

Num(n) == Val("number", "", <<>>, n)

\* The object a user function or class constructor returns: it remembers who
\* made it and from which arguments.
Obj(fn, args, r) == Val("object", fn, args, r)

Arr(elems, r) == Val("array", "", elems, r)

\* A Container as a value (the CONTAINER token resolves to it).
Con(c) == Val("container", "", <<>>, c)

IsArray(v) == v.tag = "array"

\* ------------------------------------------------------------ injectables

\* An InjectableFunction: a function with token and dependencies attached.
\*   kind "fn"     Injectable(token, deps, fn), or ClassInjectable(token, cls)
\*   kind "value"  Injectable(token, [], () => value)       (providesValue)
\*   kind "cvalue" ConcatInjectable(token, () => value)     (appendValue)
\*   kind "cfn"    ConcatInjectable(token, () => this.providesService(fn).get(token))
\*                 (append, appendClass); self is that `this`, ideps fn's
\*                 dependencies
\* ret says what the user function returns: "object" (a new object on every
\* call), "undefined", or "array" (a new two-element array on every call).
Inj(kind, name, token, deps, ret, val, self, ideps) ==
    [kind |-> kind, name |-> name, token |-> token, deps |-> deps, ret |-> ret,
     val |-> val, self |-> self, ideps |-> ideps]

\* Injectable.ts:75-101
Injectable(name, token, deps, ret) ==
    Inj("fn", name, token, deps, ret, Undefined, 0, <<>>)

\* Injectable.ts:136-144: new cls(...args) is a new object on every call.
ClassInjectable(name, token, deps) ==
    Inj("fn", name, token, deps, "object", Undefined, 0, <<>>)

\* Container.ts:436-437
ValueInjectable(token, value) ==
    Inj("value", "", token, <<>>, "", value, 0, <<>>)

\* Injectable.ts:203-232 with Container.ts:458: dependencies = [token]
ConcatValueInjectable(token, value) ==
    Inj("cvalue", "", token, <<token>>, "", value, 0, <<>>)

\* Injectable.ts:203-232 with Container.ts:484 and 512
ConcatFnInjectable(fn, self) ==
    Inj("cfn", fn.name, fn.token, <<fn.token>>, fn.ret, Undefined, self, fn.deps)

NoInjectable == Inj("none", "", "", <<>>, "", Undefined, 0, <<>>)

\* ------------------------------------------------------------------- heap

\* The heap a call works on and hands back: H.mem, H.dels, H.cons, H.ref (the
\* last reference given to a new object or array) and H.calls (the user
\* functions applied so far, each with the memoized wrapper and the delegate
\* it was applied through).
Heap == [mem |-> mem, dels |-> dels, cons |-> cons, ref |-> ref, calls |-> calls]

\* What a call returns: the heap it leaves, its value, and "ok" or the error
\* it threw.
Ret(H, v, ok) == [H |-> H, val |-> v, ok |-> ok]

NoFactories == [k \in Keys |-> 0]

\* memoize.ts:13-23: a new wrapper whose memo is undefined.
Memoized(thisArg, d) == [delegate |-> d, thisArg |-> thisArg, memo |-> Undefined]

\* How many keys up to position i of KeySeq hold a plain (not memoized)
\* function in facs; plain functions are written as negative delegate indexes.
RECURSIVE PlainUpTo(_, _)
PlainUpTo(facs, i) ==
    IF i = 0 THEN 0
    ELSE PlainUpTo(facs, i - 1) + (IF facs[KeySeq[i]] < 0 THEN 1 ELSE 0)

KeyIndex(k) == CHOOSE i \in 1..Len(KeySeq) : KeySeq[i] = k

\* Construct without `fn.thisArg = this`: a wrapper that is already memoized
\* keeps the thisArg it has.
ConstructKeepsThisArg(H, facs, op, from, arg) ==
    LET c == Len(H.cons) + 1
        n == Len(H.mem)
        plain == PlainUpTo(facs, Len(KeySeq))
        factories == [k \in Keys |->
                        IF facs[k] < 0 THEN n + PlainUpTo(facs, KeyIndex(k))
                        ELSE facs[k]]
        fresh == [i \in 1..plain |->
                    LET k == CHOOSE k \in Keys : factories[k] = n + i
                    IN Memoized(c, -facs[k])]
    IN [H EXCEPT
          !.mem = H.mem \o fresh,
          !.cons = Append(H.cons, [factories |-> factories, op |-> op,
                                   from |-> from, arg |-> arg])]

\* Container.ts:157-172, the constructor.  facs maps a key to a memoized
\* wrapper (> 0), to a plain function (< 0) or to nothing (0).  A plain
\* function is memoized with the new Container as thisArg; a memoized one has
\* its thisArg replaced by the new Container.  op, from and arg record which
\* call built the Container.
Construct(H, facs, op, from, arg) ==
    LET c == Len(H.cons) + 1
        n == Len(H.mem)
        plain == PlainUpTo(facs, Len(KeySeq))
        factories == [k \in Keys |->
                        IF facs[k] < 0 THEN n + PlainUpTo(facs, KeyIndex(k))
                        ELSE facs[k]]
        owned == {factories[k] : k \in Keys} \ {0}
        fresh == [i \in 1..plain |->
                    LET k == CHOOSE k \in Keys : factories[k] = n + i
                    IN Memoized(c, -facs[k])]
        mem1 == H.mem \o fresh
    IN [H EXCEPT
          !.mem = <<>> \o [m \in 1..Len(mem1) |->
                     IF m \in owned THEN [mem1[m] EXCEPT !.thisArg = c] ELSE mem1[m]],
          !.cons = Append(H.cons, [factories |-> factories, op |-> op,
                                   from |-> from, arg |-> arg])]

\* The Container the last Construct built.
Newest(H) == Len(H.cons)

\* providesService with the spread misplaced, { [token]: factory,
\* ...this.factories }: a token already registered keeps its old factory.
ProvidesServiceKeepsOld(H, c, fn, op) ==
    LET d == Len(H.dels) + 1
        m == Len(H.mem) + 1
        H1 == [H EXCEPT
                 !.dels = Append(H.dels, [kind |-> "service", fn |-> fn,
                                          parent |-> c, sibs |-> NoFactories]),
                 !.mem = Append(H.mem, Memoized(c, d))]
        old == H.cons[c].factories
    IN Construct(H1, IF old[fn.token] # 0 THEN old ELSE [old EXCEPT ![fn.token] = m],
                 op, c, fn.token)

\* Container.ts:515-535, providesService: the delegate closes over `this`
\* (parent) for getFromParent, is memoized with thisArg = this, and the new
\* Container is built from this.factories with the token replaced.
ProvidesServiceH(H, c, fn, op) ==
    LET d == Len(H.dels) + 1
        m == Len(H.mem) + 1
        H1 == [H EXCEPT
                 !.dels = Append(H.dels, [kind |-> "service", fn |-> fn,
                                          parent |-> c, sibs |-> NoFactories]),
                 !.mem = Append(H.mem, Memoized(c, d))]
    IN Construct(H1, [H.cons[c].factories EXCEPT ![fn.token] = m], op, c, fn.token)

\* getFactories without the lookup of siblings: every delegate resolves all
\* its dependencies from parent.
GetFactoriesFromParent(H, pc, parent) ==
    LET n == Len(pc.tokens)
    IN [H EXCEPT
          !.dels = @ \o [i \in 1..n |->
                           [kind |-> "partial", fn |-> pc.injectables[pc.tokens[i]],
                            parent |-> parent, sibs |-> NoFactories]],
          !.mem = @ \o [i \in 1..n |-> Memoized(parent, Len(H.dels) + i)]]

\* PartialContainer.ts:122-140, getFactories(parent) of PartialContainer pc:
\* one delegate and one memoized wrapper per injectable, in the order of the
\* object's keys; every delegate closes over parent and over the whole map
\* of wrappers being built (sibs).
GetFactoriesH(H, pc, parent) ==
    LET n == Len(pc.tokens)
        sibs == [k \in Keys |->
                   IF pc.injectables[k] = NoInjectable THEN 0
                   ELSE Len(H.mem) + (CHOOSE i \in 1..n : pc.tokens[i] = k)]
    IN [H EXCEPT
          !.dels = @ \o [i \in 1..n |->
                           [kind |-> "partial", fn |-> pc.injectables[pc.tokens[i]],
                            parent |-> parent, sibs |-> sibs]],
          !.mem = @ \o [i \in 1..n |-> Memoized(parent, Len(H.dels) + i)]]

\* The wrappers getFactories has just put on the heap H, by token.
PartialFactories(H, pc) ==
    [k \in Keys |->
       IF pc.injectables[k] = NoInjectable THEN 0
       ELSE Len(H.mem) - Len(pc.tokens) + (CHOOSE i \in 1..Len(pc.tokens) : pc.tokens[i] = k)]

\* { ...a, ...b } of two factory maps: b's entry where b has one.
Spread(a, b) == [k \in Keys |-> IF b[k] # 0 THEN b[k] ELSE a[k]]

\* provides(partialContainer) with the spread reversed,
\* { ...factories, ...this.factories }: the Container's own entries win.
ProvidesPartialOwnFirst(H, c, p, pc) ==
    LET H1 == GetFactoriesH(H, pc, c)
    IN Construct(H1, Spread(PartialFactories(H1, pc), H.cons[c].factories),
                 "providesPartial", c, p)

\* Container.ts:396-406, provides(partialContainer).
ProvidesPartialH(H, c, p, pc) ==
    LET H1 == GetFactoriesH(H, pc, c)
    IN Construct(H1, Spread(H.cons[c].factories, PartialFactories(H1, pc)),
                 "providesPartial", c, p)

\* provides(container) with the spread reversed,
\* { ...factories, ...this.factories }: the receiver's entries win.
ProvidesContainerOwnFirst(H, c, other) ==
    Construct(H, Spread(H.cons[other].factories, H.cons[c].factories),
              "providesContainer", c, other)

\* Container.ts:396-406, provides(container).
ProvidesContainerH(H, c, other) ==
    Construct(H, Spread(H.cons[c].factories, H.cons[other].factories),
              "providesContainer", c, other)

\* Container.ts:207-217, copy(scopedServices): the scoped tokens get the
\* plain delegate of their wrapper, the others keep the wrapper.
CopyH(H, c, scoped) ==
    Construct(H, [k \in Keys |->
                    IF k \in scoped THEN -(H.mem[H.cons[c].factories[k]].delegate)
                    ELSE H.cons[c].factories[k]],
              "copy", c, scoped)

\* Concat as a push: the element is added to the array itself, which is
\* returned.
ConcatInPlace(array, v, r) ==
    Arr(array.args \o (IF IsArray(v) THEN v.args ELSE <<v>>), array.ref)

\* Array.prototype.concat as Injectable.ts:227 uses it: an argument that is an
\* array is spread into the result, any other argument is one new element.
Concat(array, v, r) ==
    Arr(array.args \o (IF IsArray(v) THEN v.args ELSE <<v>>), r)

\* A string, e.g. what Object.prototype.toString returns.
Str(text) == Val("string", text, <<>>, 0)

\* String(v), the conversion String.prototype.concat applies to an argument:
\* a number in decimal, an array as its elements joined by commas (undefined
\* as nothing), any other object as "[object Object]".
RECURSIVE JsString(_), JsJoin(_, _)
JsString(v) ==
    CASE v.tag = "string" -> v.fn
      [] v.tag = "number" -> ToString(v.ref)
      [] v.tag = "undefined" -> "undefined"
      [] v.tag = "array" -> JsJoin(v.args, 1)
      [] OTHER -> "[object Object]"

JsJoin(elems, i) ==
    IF i > Len(elems) THEN ""
    ELSE (IF i > 1 THEN "," ELSE "")
         \o (IF elems[i] = Undefined THEN "" ELSE JsString(elems[i]))
         \o JsJoin(elems, i + 1)

\* Injectable.ts:227, array.concat(v) when array is a string:
\* String.prototype.concat, the string followed by String(v).
StringConcat(string, v) == Str(string.fn \o JsString(v))

\* Container.ts:241-246, the Error get throws for a token it cannot find:
\* its message is `Could not find Service for Token "<token>"`.
Error(token) == Val("error", token, <<>>, 0)

\* Names every plain JavaScript object inherits from Object.prototype.
InheritedKeys == {"toString", "valueOf"}

\* Object.prototype[name] called with receiver this: toString returns
\* "[object Undefined]" for no receiver and "[object Object]" for an object;
\* valueOf returns the receiver and throws a TypeError when there is none.
ProtoCall(name, this) ==
    IF name = "toString"
    THEN [val |-> IF this = Undefined THEN Str("[object Undefined]")
                  ELSE Str("[object Object]"), ok |-> "ok"]
    ELSE IF this = Undefined THEN [val |-> Undefined, ok |-> "TypeError"]
         ELSE [val |-> this, ok |-> "ok"]

RECURSIVE Get(_, _, _, _)
RECURSIVE CallMemoized(_, _, _)
RECURSIVE ResolveDeps(_, _, _, _, _, _)
RECURSIVE Apply(_, _, _, _)

\* get with the lookup and its throw before the sentinel test: the
\* Container's own token is looked up in this.factories like any other.
GetLooksUpFirst(H, c, token, fuel) ==
    IF token \in Keys /\ H.cons[c].factories[token] # 0
    THEN CallMemoized(H, H.cons[c].factories[token], fuel)
    ELSE IF token \in InheritedKeys
         THEN LET r == ProtoCall(token, Undefined)
              IN Ret(H, r.val, r.ok)
         ELSE Ret(H, Error(token), "KeyNotFound")

\* Container.ts:237-249, get.  this.factories is a plain object
\* (Container.ts:158), so a token it does not hold itself is looked up on
\* Object.prototype: for an inherited name the lookup finds a function, the
\* `if (!factory)` test passes and the function is called with no receiver.
Get(H, c, token, fuel) ==
    IF token = CONTAINER THEN Ret(H, Con(c), "ok")
    ELSE IF token \in Keys /\ H.cons[c].factories[token] # 0
         THEN CallMemoized(H, H.cons[c].factories[token], fuel)
         ELSE IF token \in InheritedKeys
              THEN LET r == ProtoCall(token, Undefined)
                   IN Ret(H, r.val, r.ok)
              ELSE Ret(H, Error(token), "KeyNotFound")

\* ResolveDeps with the sibling looked up before the own token is told
\* apart: a function of a PartialContainer that lists its own token calls
\* its own wrapper.
ResolveDepsSiblingFirst(H, d, this, i, acc, fuel) ==
    LET del == H.dels[d]
        deps == del.fn.deps
    IN IF i > Len(deps) THEN Ret(H, acc, "ok")
       ELSE LET t == deps[i]
                r == IF del.kind = "service"
                     THEN IF t = del.fn.token THEN Get(H, del.parent, t, fuel)
                          ELSE Get(H, this, t, fuel)
                     ELSE IF t \in Keys /\ del.sibs[t] # 0
                          THEN CallMemoized(H, del.sibs[t], fuel)
                          ELSE Get(H, del.parent, t, fuel)
            IN IF r.ok # "ok" THEN r
               ELSE ResolveDeps(r.H, d, this, i + 1, Append(acc, r.val), fuel)

\* ResolveDeps with every dependency of a delegate of providesService taken
\* from the Container the function was registered on, never through `this`.
ResolveDepsFromParent(H, d, this, i, acc, fuel) ==
    LET del == H.dels[d]
        deps == del.fn.deps
    IN IF i > Len(deps) THEN Ret(H, acc, "ok")
       ELSE LET t == deps[i]
                r == IF del.kind = "service"
                     THEN Get(H, del.parent, t, fuel)
                     ELSE IF t = del.fn.token THEN Get(H, del.parent, t, fuel)
                          ELSE IF t \in Keys /\ del.sibs[t] # 0
                               THEN CallMemoized(H, del.sibs[t], fuel)
                               ELSE Get(H, del.parent, t, fuel)
            IN IF r.ok # "ok" THEN r
               ELSE ResolveDeps(r.H, d, this, i + 1, Append(acc, r.val), fuel)

\* ResolveDeps walking the list from its end: each value still lands at the
\* position of its token, but the last dependency is resolved first.
ResolveDepsRightToLeft(H, d, this, i, acc, fuel) ==
    LET del == H.dels[d]
        deps == del.fn.deps
    IN IF i > Len(deps) THEN Ret(H, acc, "ok")
       ELSE LET t == deps[Len(deps) + 1 - i]
                r == IF del.kind = "service"
                     THEN IF t = del.fn.token THEN Get(H, del.parent, t, fuel)
                          ELSE Get(H, this, t, fuel)
                     ELSE IF t = del.fn.token THEN Get(H, del.parent, t, fuel)
                          ELSE IF t \in Keys /\ del.sibs[t] # 0
                               THEN CallMemoized(H, del.sibs[t], fuel)
                               ELSE Get(H, del.parent, t, fuel)
            IN IF r.ok # "ok" THEN r
               ELSE ResolveDeps(r.H, d, this, i + 1, <<r.val>> \o acc, fuel)

\* CallMemoized storing what the delegate threw as it stores what it returns.
CallMemoizedKeepsError(H, m, fuel) ==
    IF H.mem[m].memo # Undefined THEN Ret(H, H.mem[m].memo, "ok")
    ELSE IF fuel = 0 THEN Ret(H, Undefined, "RangeError")
    ELSE LET d == H.mem[m].delegate
             a == ResolveDeps(H, d, H.mem[m].thisArg, 1, <<>>, fuel - 1)
         IN IF a.ok # "ok" THEN Ret([a.H EXCEPT !.mem[m].memo = a.val], a.val, a.ok)
            ELSE LET H1 == [a.H EXCEPT !.calls = Append(@, [m |-> m, d |-> d])]
                     r == Apply(H1, H1.dels[d].fn, a.val, fuel - 1)
                 IN Ret([r.H EXCEPT !.mem[m].memo = r.val], r.val, r.ok)

\* What a user function that throws has thrown.
Thrown(fn) == Val("thrown", fn, <<>>, 0)

\* The user function of an injectable applied to args: Injectable.ts:99
\* (fn(...args)), :142 (new cls(...args)), :226-228 (array.concat(fn(...args)):
\* Array.prototype.concat for an array, String.prototype.concat for a string,
\* a TypeError for a value without a concat method),
\* Container.ts:437 (() => value), :458, :484, :512 (the function given to
\* ConcatInjectable).
Apply(H, fn, args, fuel) ==
    CASE fn.kind = "fn" ->
           IF fn.ret = "undefined" THEN Ret(H, Undefined, "ok")
           ELSE IF fn.ret = "throws" THEN Ret(H, Thrown(fn.name), "Error")
           ELSE IF fn.ret = "reentrant"
                THEN \* (c) => ({ c, inner: first ? (first = false, c.get(token)) : undefined })
                     IF Cardinality({i \in DOMAIN H.calls :
                                       H.dels[H.calls[i].d].fn = fn}) = 1
                     THEN LET r == Get(H, args[1].ref, fn.token, fuel)
                          IN IF r.ok # "ok" THEN r
                             ELSE Ret([r.H EXCEPT !.ref = @ + 1],
                                      Obj(fn.name, <<args[1], r.val>>, r.H.ref + 1), "ok")
                     ELSE Ret([H EXCEPT !.ref = @ + 1],
                              Obj(fn.name, <<args[1], Undefined>>, H.ref + 1), "ok")
           ELSE IF fn.ret = "array"
                THEN Ret([H EXCEPT !.ref = @ + 1], Arr(<<Num(1), Num(2)>>, H.ref + 1), "ok")
                ELSE Ret([H EXCEPT !.ref = @ + 1], Obj(fn.name, args, H.ref + 1), "ok")
      [] fn.kind = "value" -> Ret(H, fn.val, "ok")
      [] fn.kind = "cvalue" ->
           \* array.concat is looked up before the argument is evaluated
           IF args[1] = Undefined THEN Ret(H, Undefined, "TypeError")
           ELSE IF args[1].tag = "string" THEN Ret(H, StringConcat(args[1], fn.val), "ok")
           ELSE IF ~IsArray(args[1]) THEN Ret(H, Undefined, "TypeError")
                ELSE Ret([H EXCEPT !.ref = @ + 1], Concat(args[1], fn.val, H.ref + 1), "ok")
      [] fn.kind = "cfn" ->
           IF args[1] = Undefined THEN Ret(H, Undefined, "TypeError")
           ELSE LET H1 == ProvidesServiceH(H, fn.self,
                             Injectable(fn.name, fn.token, fn.ideps, fn.ret), "inner")
                    r == Get(H1, Newest(H1), fn.token, fuel)
                IN IF r.ok # "ok" THEN r
                   ELSE IF args[1].tag = "string"
                        THEN Ret(r.H, StringConcat(args[1], r.val), "ok")
                   ELSE IF ~IsArray(args[1]) THEN Ret(r.H, Undefined, "TypeError")
                        ELSE Ret([r.H EXCEPT !.ref = @ + 1],
                                 Concat(args[1], r.val, r.H.ref + 1), "ok")

\* The dependencies of delegate d from position i on, resolved left to right
\* and gathered in acc.  Container.ts:528 for a delegate of providesService:
\* the own token from the parent, any other through `this` (the wrapper's
\* thisArg).  PartialContainer.ts:128-134 for a delegate of getFactories: the
\* own token from the parent, a token of the PartialContainer from its sibling
\* wrapper, any other from the parent.
ResolveDeps(H, d, this, i, acc, fuel) ==
    LET del == H.dels[d]
        deps == del.fn.deps
    IN IF i > Len(deps) THEN Ret(H, acc, "ok")
       ELSE LET t == deps[i]
                r == IF del.kind = "service"
                     THEN IF t = del.fn.token THEN Get(H, del.parent, t, fuel)
                          ELSE Get(H, this, t, fuel)
                     ELSE IF t = del.fn.token THEN Get(H, del.parent, t, fuel)
                          ELSE IF t \in Keys /\ del.sibs[t] # 0
                               THEN CallMemoized(H, del.sibs[t], fuel)
                               ELSE Get(H, del.parent, t, fuel)
            IN IF r.ok # "ok" THEN r
               ELSE ResolveDeps(r.H, d, this, i + 1, Append(acc, r.val), fuel)

\* memoize.ts:15-19, the memoized wrapper m called: the memo if it is not
\* undefined, else the delegate applied with the thisArg the wrapper has now,
\* and its result stored.  A call nested deeper than the stack allows throws.
CallMemoized(H, m, fuel) ==
    IF H.mem[m].memo # Undefined THEN Ret(H, H.mem[m].memo, "ok")
    ELSE IF fuel = 0 THEN Ret(H, Undefined, "RangeError")
    ELSE LET d == H.mem[m].delegate
             a == ResolveDeps(H, d, H.mem[m].thisArg, 1, <<>>, fuel - 1)
         IN IF a.ok # "ok" THEN a
            ELSE LET H1 == [a.H EXCEPT !.calls = Append(@, [m |-> m, d |-> d])]
                     r == Apply(H1, H1.dels[d].fn, a.val, fuel - 1)
                 IN IF r.ok # "ok" THEN r
                    ELSE Ret([r.H EXCEPT !.mem[m].memo = r.val], r.val, "ok")


\* ---------------------------------------------------------------- actions

Commit(H) ==
    /\ mem' = H.mem
    /\ dels' = H.dels
    /\ cons' = H.cons
    /\ ref' = H.ref
    /\ calls' = H.calls

\* What `last` records of a call: the method, its receiver and token, the
\* value it returned or the error it threw, and how many user functions had
\* been applied when it began.
Called(op, c, token, v, ok) ==
    [op |-> op, c |-> c, token |-> token, val |-> v, ok |-> ok, at |-> Len(calls)]

Containers == 1..Len(cons)

Partials == 1..Len(pcs)

KeysOf(c) == {k \in Keys : cons[c].factories[k] # 0}

\* A call that builds one Container and resolves nothing.
Build(H, op, c, token) ==
    /\ Commit(H)
    /\ last' = Called(op, c, token, Con(Newest(H)), "ok")
    /\ UNCHANGED <<pcs, registry>>

\* provides(fn) that resolves the service at once: the new Container is asked
\* for the token before it is returned.
ProvidesEagerly(c, fn) ==
    LET H1 == ProvidesServiceH(Heap, c, fn, "provides")
        r == Get(H1, Newest(H1), fn.token, MaxDepth)
    IN /\ Commit(r.H)
       /\ last' = Called("provides", c, fn.token, Con(Newest(H1)), "ok")
       /\ UNCHANGED <<pcs, registry>>

\* Container.ts:390-408, provides(fn): line 407.
Provides(c, fn) ==
    Build(ProvidesServiceH(Heap, c, fn, "provides"), "provides", c, fn.token)

\* Container.ts:421-424
ProvidesClass(c, cls) ==
    Build(ProvidesServiceH(Heap, c, cls, "providesClass"), "providesClass", c, cls.token)

\* Container.ts:436-437
ProvidesValue(c, token, value) ==
    Build(ProvidesServiceH(Heap, c, ValueInjectable(token, value), "providesValue"),
          "providesValue", c, token)

\* Container.ts:455-458
AppendValue(c, token, value) ==
    Build(ProvidesServiceH(Heap, c, ConcatValueInjectable(token, value), "appendValue"),
          "appendValue", c, token)

\* Container.ts:475-485
AppendClass(c, cls) ==
    Build(ProvidesServiceH(Heap, c, ConcatFnInjectable(cls, c), "appendClass"),
          "appendClass", c, cls.token)

\* Container.ts:504-513
AppendFn(c, fn) ==
    Build(ProvidesServiceH(Heap, c, ConcatFnInjectable(fn, c), "append"),
          "append", c, fn.token)

\* Container.ts:390-406, provides(partialContainer).
ProvidesPartial(c, p) ==
    Build(ProvidesPartialH(Heap, c, p, pcs[p]), "providesPartial", c, "")

\* Container.ts:390-406, provides(container).
ProvidesContainer(c, other) ==
    Build(ProvidesContainerH(Heap, c, other), "providesContainer", c, "")

\* Container.ts:207-217.  A scoped token the Container does not hold is a
\* compile-time error (Tokens extends readonly (keyof Services)[]).
Copy(c, scoped) ==
    /\ scoped \subseteq KeysOf(c)
    /\ Build(CopyH(Heap, c, scoped), "copy", c, "")

\* unnamed/part_005:67-72, UpdateDependencies: the Dependencies type
\* parameter of the PartialContainer that provides(fn) returns,
\* AddDependencies<ExcludeKey<ExistingDependencies, NewToken>,
\*                 ExcludeKey<NewDependencies, keyof ExistingServices>>.
UpdateDependencies(services, dependencies, token, newDependencies) ==
    (dependencies \ {token}) \cup (newDependencies \ services)

\* PartialContainer.ts:86-104, provides(fn):
\* new PartialContainer({ ...this.injectables, [fn.token]: fn }), typed
\* PartialContainer<AddService<...>, UpdateDependencies<...>>.
PartialProvides(p, fn) ==
    /\ pcs' = Append(pcs,
                [injectables |-> [pcs[p].injectables EXCEPT ![fn.token] = fn],
                 required |-> UpdateDependencies(
                     {k \in Keys : pcs[p].injectables[k] # NoInjectable},
                     pcs[p].required, fn.token,
                     {fn.deps[i] : i \in DOMAIN fn.deps}),
                 tokens |-> IF pcs[p].injectables[fn.token] = NoInjectable
                            THEN Append(pcs[p].tokens, fn.token)
                            ELSE pcs[p].tokens])
    /\ last' = Called("partialProvides", p, fn.token, Undefined, "ok")
    /\ UNCHANGED <<mem, dels, cons, ref, calls, registry>>

\* Container.ts:237-249, a get called from outside.
GetService(c, token) ==
    LET r == Get(Heap, c, token, MaxDepth)
    IN /\ Commit(r.H)
       /\ last' = Called("get", c, token, r.val, r.ok)
       /\ UNCHANGED <<pcs, registry>>

\* Container.ts:320-322, the loop of run(partialContainer): get of each token
\* from position i on, in the order of getTokens; the first get that throws
\* ends the loop.
RECURSIVE GetEach(_, _, _, _)
GetEach(H, c, tokens, i) ==
    IF i > Len(tokens) THEN Ret(H, Undefined, "ok")
    ELSE LET r == Get(H, c, tokens[i], MaxDepth)
         IN IF r.ok # "ok" THEN r ELSE GetEach(r.H, c, tokens, i + 1)

\* The Container the last Construct built is local to run: the program never
\* holds it.
Runnable(H) == [H EXCEPT !.cons[Newest(H)].op = "run"]

\* What run leaves: the heap, and `this` returned unless a get threw.
Ran(r, c, token) ==
    /\ Commit(r.H)
    /\ last' = Called("run", c, token, IF r.ok = "ok" THEN Con(c) ELSE r.val, r.ok)
    /\ UNCHANGED <<pcs, registry>>

\* Container.ts:314-326, run(fn): line 324 and 326.
RunFn(c, fn) ==
    LET H1 == Runnable(ProvidesServiceH(Heap, c, fn, "provides"))
    IN Ran(Get(H1, Newest(H1), fn.token, MaxDepth), c, fn.token)

\* Container.ts:314-326, run(partialContainer): lines 318-323 and 326.
RunPartial(c, p) ==
    LET H1 == Runnable(ProvidesPartialH(Heap, c, p, pcs[p]))
    IN Ran(GetEach(H1, Newest(H1), pcs[p].tokens, 1), c, "")

\* Container.ts:145-149, the reduce of fromObject: providesValue of each
\* entry from position i on, each on the Container the one before returned.
RECURSIVE FromEntries(_, _, _)
FromEntries(H, es, i) ==
    IF i > Len(es) THEN H
    ELSE FromEntries(ProvidesServiceH(H, Newest(H),
                                      ValueInjectable(es[i][1], es[i][2]),
                                      "providesValue"),
                     es, i + 1)

\* Container.ts:144-150, fromObject(services): es are the entries of
\* services, pairs of token and value in the order of Object.entries.  The
\* Container the last Construct built is the one fromObject returns.
FromObject(es) ==
    LET H == FromEntries(Construct(Heap, NoFactories, "new", 0, ""), es, 1)
    IN Build([H EXCEPT !.cons[Newest(H)].op = "fromObject", !.cons[Newest(H)].arg = es],
             "fromObject", 0, "")

\* A JavaScript value given to Injectable as an argument, as <<kind, list>>:
\* a function with its parameter list (each parameter plain, with a default
\* value, or a rest parameter), an array of tokens, or undefined for an
\* argument left out.
JsFunction(params) == <<"function", params>>

JsArray(elems) == <<"array", elems>>

JsUndefined == <<"undefined", <<>>>>

\* Function.prototype.length as Injectable.ts:86 reads it: the number of
\* parameters before the first one with a default value or the rest
\* parameter.
FnLength(params) ==
    CHOOSE n \in 0..Len(params) :
        /\ \A i \in 1..n : params[i] = "plain"
        /\ n = Len(params) \/ params[n + 1] # "plain"

\* Injectable.ts:75-101, Injectable(token, dependenciesOrFn, maybeFn): the
\* injectable returned, or the TypeError thrown.
InjectableOf(token, dependenciesOrFn, maybeFn) ==
    LET dependencies == IF dependenciesOrFn[1] = "array" THEN dependenciesOrFn[2] ELSE <<>>
        fn == IF dependenciesOrFn[1] = "function" THEN dependenciesOrFn ELSE maybeFn
    IN IF fn[1] # "function"
       THEN [val |-> Str("[Injectable] Received invalid arguments."), ok |-> "TypeError"]
       ELSE IF FnLength(fn[2]) # Len(dependencies)
            THEN [val |-> Str("[Injectable] Function arity does not match the number of dependencies."),
                  ok |-> "TypeError"]
            ELSE [val |-> Injectable("fn", token, dependencies, "object"), ok |-> "ok"]

\* A call of Injectable from outside; `last` keeps the arguments as c.
MakeInjectable(token, dependenciesOrFn, maybeFn) ==
    LET r == InjectableOf(token, dependenciesOrFn, maybeFn)
    IN /\ last' = Called("Injectable", <<dependenciesOrFn, maybeFn>>, token, r.val, r.ok)
       /\ UNCHANGED <<mem, dels, cons, pcs, ref, calls, registry>>

\* PluginRegistry.ts:56-59, register(plugin) on the registry R, and the
\* forEach of line 58 from observer i on: forEach visits the n observers
\* the array held when it started, and an observer that throws ends it.
\* An observer is modelled by what it does when called: it only "records"
\* the plugin, it "throws", it "observes" (registers one more observer), or
\* it "registers" the plugin q the first time it is called.  `begun` keeps
\* each register call with the number of observers it found, `notified`
\* each observer call as [o, call].
RECURSIVE Register(_, _), NotifyEach(_, _, _, _, _)
Register(R, plugin) ==
    NotifyEach([R EXCEPT !.plugins = Append(@, plugin),
                         !.begun = Append(@, [n |-> Len(R.observers), plugin |-> plugin])],
               plugin, Len(R.begun) + 1, 1, Len(R.observers))

NotifyEach(R, plugin, call, i, n) ==
    IF i > n THEN [R |-> R, ok |-> "ok"]
    ELSE LET observer == R.observers[i]
             first == \A e \in DOMAIN R.notified : R.notified[e].o # i
             R1 == [R EXCEPT !.notified = Append(@, [call |-> call, o |-> i])]
             r == IF observer = "throws" THEN [R |-> R1, ok |-> "Error"]
                  ELSE IF observer = "observes"
                       THEN [R |-> [R1 EXCEPT !.observers = Append(@, "records")], ok |-> "ok"]
                       ELSE IF observer = "registers" /\ first
                            THEN Register(R1, "q")
                            ELSE [R |-> R1, ok |-> "ok"]
         IN IF r.ok # "ok" THEN r ELSE NotifyEach(r.R, plugin, call, i + 1, n)

\* A call of register(plugin) from outside.
RegisterPlugin(plugin) ==
    LET r == Register(registry, plugin)
    IN /\ registry' = r.R
       /\ last' = Called("register", 0, plugin, Undefined, r.ok)
       /\ UNCHANGED <<mem, dels, cons, pcs, ref, calls>>

\* PluginRegistry.ts:66-68, observe(observer).
Observe(observer) ==
    /\ registry' = [registry EXCEPT !.observers = Append(@, observer)]
    /\ last' = Called("observe", 0, observer, Undefined, "ok")
    /\ UNCHANGED <<mem, dels, cons, pcs, ref, calls>>

\* PluginRegistry.ts:75-77, getPlugins().
GetPlugins ==
    /\ last' = Called("getPlugins", 0, "", registry.plugins, "ok")
    /\ UNCHANGED <<mem, dels, cons, pcs, ref, calls, registry>>

\* -------------------------------------------------------------- behaviours

\* new Container({}) and new PartialContainer({}).
Init ==
    /\ mem = <<>>
    /\ dels = <<>>
    /\ cons = <<[factories |-> NoFactories, op |-> "new", from |-> 0, arg |-> ""]>>
    /\ pcs = <<[injectables |-> [k \in Keys |-> NoInjectable], required |-> {},
               tokens |-> <<>>]>>
    /\ ref = 0
    /\ calls = <<>>
    /\ last = Called("new", 0, "", Con(1), "ok")
    /\ registry = [begun |-> <<>>, notified |-> <<>>, observers |-> <<>>, plugins |-> <<>>]

\* The heap of the next state holds at most n Containers, p PartialContainers
\* and k applications of user functions.
Within(n, p, k) == Len(cons') <= n /\ Len(pcs') <= p /\ Len(calls') <= k

\* The user functions of the override behaviours.
fA == Injectable("fA", "X", <<>>, "object")
fB == Injectable("fB", "X", <<>>, "object")
fW == Injectable("fW", "X", <<"X">>, "object")
fU == Injectable("fU", "X", <<>>, "undefined")
fS == Injectable("fS", "S", <<"X">>, "object")

Fns == {fA, fB, fW, fU, fS}

Next ==
    \/ \E c \in Containers, fn \in Fns :
         Provides(c, fn) /\ Within(MaxContainers, 1, MaxCalls)
    \/ \E c \in Containers, token \in Keys \ InheritedKeys :
         GetService(c, token) /\ Within(MaxContainers, 1, MaxCalls)

Spec == Init /\ [][Next]_vars

\* The behaviours that merge: functions registered on Containers and on
\* PartialContainers, and Containers given PartialContainers and Containers.
MergeFns == {fA, fB}
PartialFns == {fB, fW, fS}
MergeKeys == {"X", "S"}

NextMerge ==
    \/ \E c \in Containers, fn \in MergeFns :
         Provides(c, fn) /\ Within(MaxComposed, MaxPartials, MaxCalls)
    \/ \E p \in Partials, fn \in PartialFns :
         PartialProvides(p, fn) /\ Within(MaxComposed, MaxPartials, MaxCalls)
    \/ \E c \in Containers, p \in Partials :
         ProvidesPartial(c, p) /\ Within(MaxComposed, MaxPartials, MaxCalls)
    \/ \E c \in Containers, other \in Containers :
         ProvidesContainer(c, other) /\ Within(MaxComposed, MaxPartials, MaxCalls)
    \/ \E c \in Containers, token \in MergeKeys :
         GetService(c, token) /\ Within(MaxComposed, MaxPartials, MaxCalls)

SpecMerge == Init /\ [][NextMerge]_vars

\* The behaviours that give PartialContainers holding X to Containers
\* holding X, and merge no two Containers.
PartialXFns == {fB, fW}

NextPartial ==
    \/ \E c \in Containers, fn \in MergeFns :
         Provides(c, fn) /\ Within(MaxContainers, MaxPartials, MaxCalls)
    \/ \E p \in Partials, fn \in PartialXFns :
         PartialProvides(p, fn) /\ Within(MaxContainers, MaxPartials, MaxCalls)
    \/ \E c \in Containers, p \in Partials :
         ProvidesPartial(c, p) /\ Within(MaxContainers, MaxPartials, MaxCalls)
    \/ \E c \in Containers :
         GetService(c, "X") /\ Within(MaxContainers, MaxPartials, MaxCalls)

SpecPartial == Init /\ [][NextPartial]_vars

\* The behaviours that copy: functions registered, Containers copied with
\* any set of their tokens scoped, services got.
CopyFns == {fA, fU, fS}

NextCopy ==
    \/ \E c \in Containers, fn \in CopyFns :
         Provides(c, fn) /\ Within(MaxContainers, 1, MaxCalls)
    \/ \E c \in Containers : \E scoped \in SUBSET KeysOf(c) :
         Copy(c, scoped) /\ Within(MaxContainers, 1, MaxCalls)
    \/ \E c \in Containers, token \in Keys \ InheritedKeys :
         GetService(c, token) /\ Within(MaxContainers, 1, MaxCalls)

SpecCopy == Init /\ [][NextCopy]_vars

\* The behaviours that append: an array registered by value, then values,
\* a function's result and a class's instance appended to it.
cK == ClassInjectable("cK", "X", <<>>)
ArrayValues == {Arr(<<>>, 0)}
AppendValues == {Num(1), Num(2), Arr(<<Num(1), Num(2)>>, 0)}

NextAppend ==
    \/ \E c \in Containers, value \in ArrayValues :
         ProvidesValue(c, "X", value) /\ Within(MaxComposed, 1, MaxCalls)
    \/ \E c \in Containers, value \in AppendValues :
         AppendValue(c, "X", value) /\ Within(MaxComposed, 1, MaxCalls)
    \/ \E c \in Containers :
         AppendFn(c, fA) /\ Within(MaxComposed, 1, MaxCalls)
    \/ \E c \in Containers :
         AppendClass(c, cK) /\ Within(MaxComposed, 1, MaxCalls)
    \/ \E c \in Containers :
         GetService(c, "X") /\ Within(MaxComposed, 1, MaxCalls)

SpecAppend == Init /\ [][NextAppend]_vars

\* The behaviours that share: functions registered, Containers given to
\* Containers, services got from either.
ShareFns == {fA, fU, fS}

NextShare ==
    \/ \E c \in Containers, fn \in ShareFns :
         Provides(c, fn) /\ Within(MaxContainers, 1, MaxCalls)
    \/ \E c \in Containers, other \in Containers :
         ProvidesContainer(c, other) /\ Within(MaxContainers, 1, MaxCalls)
    \/ \E c \in Containers, token \in MergeKeys :
         GetService(c, token) /\ Within(MaxContainers, 1, MaxCalls)

SpecShare == Init /\ [][NextShare]_vars

\* The behaviours that give one PartialContainer to several Containers.
ScopedFns == {fA, fU}

NextScoped ==
    \/ \E p \in Partials, fn \in ScopedFns :
         PartialProvides(p, fn) /\ Within(MaxContainers, MaxPartials, MaxCalls)
    \/ \E c \in Containers, p \in Partials :
         ProvidesPartial(c, p) /\ Within(MaxContainers, MaxPartials, MaxCalls)
    \/ \E c \in Containers :
         GetService(c, "X") /\ Within(MaxContainers, MaxPartials, MaxCalls)

SpecScoped == Init /\ [][NextScoped]_vars

\* The behaviours that ask for any token: registered, unregistered, the
\* Container's own, and names inherited from Object.prototype.
AskedFns == {fA, fS}
AskedKeys == Keys \cup InheritedKeys \cup {CONTAINER}

NextAsk ==
    \/ \E c \in Containers, fn \in AskedFns :
         Provides(c, fn) /\ Within(MaxContainers, 1, MaxCalls)
    \/ \E c \in Containers, token \in AskedKeys :
         GetService(c, token) /\ Within(MaxContainers, 1, MaxCalls)

SpecAsk == Init /\ [][NextAsk]_vars

\* What the compiler accepts: provides(fn) and run(fn) on a Container that
\* holds every dependency of fn (Tokens extends readonly
\* ValidTokens<Services>[]), provides(partial) and run(partial) on a
\* Container that holds every key of the Dependencies type parameter of
\* the PartialContainer.
Typed(c, fn) == \A i \in DOMAIN fn.deps : fn.deps[i] \in KeysOf(c)

TypedPartial(c, p) == pcs[p].required \subseteq KeysOf(c)

\* The behaviours of run: a Container of fA under X and fS under S, run
\* with a function or with a PartialContainer, then asked.
ReadyFns == {fA, fS}

RunFns == {fB, fS}

NextRun ==
    \/ \E c \in Containers, fn \in ReadyFns :
         Typed(c, fn) /\ Provides(c, fn)
         /\ Within(MaxComposed, MaxPartials, MaxCalls)
    \/ \E p \in Partials :
         PartialProvides(p, fB) /\ Within(MaxComposed, MaxPartials, MaxCalls)
    \/ \E c \in Containers, fn \in RunFns :
         cons[c].op # "run" /\ Typed(c, fn) /\ RunFn(c, fn)
         /\ Within(MaxComposed, MaxPartials, MaxCalls)
    \/ \E c \in Containers, p \in Partials :
         cons[c].op # "run" /\ TypedPartial(c, p) /\ RunPartial(c, p)
         /\ Within(MaxComposed, MaxPartials, MaxCalls)
    \/ \E c \in Containers, token \in MergeKeys :
         cons[c].op # "run" /\ GetService(c, token)
         /\ Within(MaxComposed, MaxPartials, MaxCalls)

SpecRun == Init /\ [][NextRun]_vars

\* The behaviours of run where a function returns undefined: fU under X
\* and fS, which depends on X, in a Container or grouped in one
\* PartialContainer.
EagerFns == {fA, fU, fS}

GroupedFns == {fU, fS}

NextEager ==
    \/ \E c \in Containers, fn \in EagerFns :
         Typed(c, fn) /\ Provides(c, fn)
         /\ Within(MaxContainers, MaxGrouped, MaxCalls)
    \/ \E p \in Partials, fn \in GroupedFns :
         PartialProvides(p, fn) /\ Within(MaxContainers, MaxGrouped, MaxCalls)
    \/ \E c \in Containers, fn \in GroupedFns :
         cons[c].op # "run" /\ Typed(c, fn) /\ RunFn(c, fn)
         /\ Within(MaxContainers, MaxGrouped, MaxCalls)
    \/ \E c \in Containers, p \in Partials :
         cons[c].op # "run" /\ TypedPartial(c, p) /\ RunPartial(c, p)
         /\ Within(MaxContainers, MaxGrouped, MaxCalls)
    \/ \E c \in Containers, token \in MergeKeys :
         cons[c].op # "run" /\ GetService(c, token)
         /\ Within(MaxContainers, MaxGrouped, MaxCalls)

SpecEager == Init /\ [][NextEager]_vars

\* The behaviours of a PartialContainer that groups services: fB or fW
\* under X and fS, which depends on X, provided to a Container with or
\* without fA under X.
GroupFns == {fB, fW, fS}

NextGrouped ==
    \/ \E c \in Containers :
         Provides(c, fA) /\ Within(MaxContainers, MaxGrouped, MaxCalls)
    \/ \E p \in Partials, fn \in GroupFns :
         PartialProvides(p, fn) /\ Within(MaxContainers, MaxGrouped, MaxCalls)
    \/ \E c \in Containers, p \in Partials :
         ProvidesPartial(c, p) /\ Within(MaxContainers, MaxGrouped, MaxCalls)
    \/ \E c \in Containers, token \in MergeKeys :
         GetService(c, token) /\ Within(MaxContainers, MaxGrouped, MaxCalls)

SpecGrouped == Init /\ [][NextGrouped]_vars

\* The behaviours that derive Containers from a Container of fA under X and
\* fS under S, in every way, and ask.
DeriveFns == {fA, fB, fS}

NextDerive ==
    \/ \E c \in Containers, fn \in DeriveFns :
         Typed(c, fn) /\ Provides(c, fn)
         /\ Within(MaxComposed, MaxPartials, MaxCalls)
    \/ \E c \in Containers :
         "X" \in KeysOf(c) /\ AppendValue(c, "X", Num(2))
         /\ Within(MaxComposed, MaxPartials, MaxCalls)
    \/ \E c \in Containers : \E scoped \in SUBSET KeysOf(c) :
         Copy(c, scoped) /\ Within(MaxComposed, MaxPartials, MaxCalls)
    \/ \E c \in Containers, other \in Containers :
         ProvidesContainer(c, other) /\ Within(MaxComposed, MaxPartials, MaxCalls)
    \/ \E p \in Partials :
         PartialProvides(p, fB) /\ Within(MaxComposed, MaxPartials, MaxCalls)
    \/ \E c \in Containers :
         Len(pcs) > 1 /\ ProvidesPartial(c, Len(pcs))
         /\ Within(MaxComposed, MaxPartials, MaxCalls)
    \/ \E c \in Containers, token \in MergeKeys :
         GetService(c, token) /\ Within(MaxComposed, MaxPartials, MaxCalls)

SpecDerive == Init /\ [][NextDerive]_vars

\* A function registered under a token that is also an inherited name.
fT == Injectable("fT", "toString", <<>>, "object")

\* The behaviours of provides where one of the tokens is an inherited name,
\* every Container asked for every token given.
NextAdded ==
    \/ \E c \in Containers, fn \in {fA, fS, fT} :
         Provides(c, fn) /\ Within(MaxContainers, 1, MaxCalls)
    \/ \E c \in Containers, token \in {"X", "S", "toString"} :
         GetService(c, token) /\ Within(MaxContainers, 1, MaxCalls)

SpecAdded == Init /\ [][NextAdded]_vars

\* The behaviours that build Containers and PartialContainers by every
\* method, run a function, and ask.
NextLazy ==
    \/ \E c \in Containers, fn \in {fA, fS} :
         Typed(c, fn) /\ Provides(c, fn)
         /\ Within(MaxContainers, MaxPartials, MaxCalls)
    \/ \E c \in Containers, value \in ArrayValues :
         ProvidesValue(c, "X", value) /\ Within(MaxContainers, MaxPartials, MaxCalls)
    \/ \E c \in Containers :
         ProvidesClass(c, cK) /\ Within(MaxContainers, MaxPartials, MaxCalls)
    \/ \E c \in Containers :
         "X" \in KeysOf(c) /\ AppendValue(c, "X", Num(1))
         /\ Within(MaxContainers, MaxPartials, MaxCalls)
    \/ \E c \in Containers :
         "X" \in KeysOf(c) /\ AppendFn(c, fA)
         /\ Within(MaxContainers, MaxPartials, MaxCalls)
    \/ \E c \in Containers :
         "X" \in KeysOf(c) /\ AppendClass(c, cK)
         /\ Within(MaxContainers, MaxPartials, MaxCalls)
    \/ \E c \in Containers : \E scoped \in SUBSET KeysOf(c) :
         Copy(c, scoped) /\ Within(MaxContainers, MaxPartials, MaxCalls)
    \/ FromObject(<< <<"X", Num(1)>> >>) /\ Within(MaxContainers, MaxPartials, MaxCalls)
    \/ \E p \in Partials :
         PartialProvides(p, fB) /\ Within(MaxContainers, MaxPartials, MaxCalls)
    \/ \E c \in Containers, p \in Partials :
         ProvidesPartial(c, p) /\ Within(MaxContainers, MaxPartials, MaxCalls)
    \/ \E c \in Containers, other \in Containers :
         ProvidesContainer(c, other) /\ Within(MaxContainers, MaxPartials, MaxCalls)
    \/ \E c \in Containers :
         cons[c].op # "run" /\ RunFn(c, fB)
         /\ Within(MaxContainers, MaxPartials, MaxCalls)
    \/ \E c \in Containers, token \in MergeKeys :
         cons[c].op # "run" /\ GetService(c, token)
         /\ Within(MaxContainers, MaxPartials, MaxCalls)

SpecLazy == Init /\ [][NextLazy]_vars

\* A function that is given the Container and, the first time it is called,
\* asks the Container for its own token before it returns: a second call of
\* the memoized wrapper begins between the check of memo and its write.
fR == Injectable("fR", "X", <<CONTAINER>>, "reentrant")

\* The behaviours where a second get of a token begins while the first is
\* between its check of the cache and its write.
NextReentrant ==
    \/ \E c \in Containers, fn \in {fA, fR, fS} :
         Provides(c, fn) /\ Within(MaxContainers, 1, MaxCalls)
    \/ \E c \in Containers, token \in MergeKeys :
         GetService(c, token) /\ Within(MaxContainers, 1, MaxCalls)

SpecReentrant == Init /\ [][NextReentrant]_vars

\* The behaviours of Injectable: every token, dependency list of up to
\* MaxDeps tokens (or none) and function of up to MaxDeps parameters before
\* an optional rest parameter.
MaxDeps == 2

RECURSIVE SeqsUpTo(_, _)
SeqsUpTo(S, n) ==
    IF n = 0 THEN {<<>>}
    ELSE SeqsUpTo(S, n - 1) \cup
         {Append(q, x) : q \in {q \in SeqsUpTo(S, n - 1) : Len(q) = n - 1}, x \in S}

ParamLists ==
    LET heads == SeqsUpTo({"plain", "default"}, MaxDeps)
    IN heads \cup {Append(q, "rest") : q \in heads}

NextInjectable ==
    \/ \E token \in MergeKeys, deps \in SeqsUpTo({"X", "V"}, MaxDeps), params \in ParamLists :
         MakeInjectable(token, JsArray(deps), JsFunction(params))
    \/ \E token \in MergeKeys, params \in ParamLists :
         MakeInjectable(token, JsFunction(params), JsUndefined)
    \/ \E token \in MergeKeys, deps \in SeqsUpTo({"X", "V"}, MaxDeps) :
         MakeInjectable(token, JsArray(deps), JsUndefined)

SpecInjectable == Init /\ [][NextInjectable]_vars

\* The behaviours of fromObject: every flat object of up to two properties,
\* values that are a number or undefined, and get of every token of it, of a
\* token it lacks and of a name every object inherits.
Objects ==
    {<<>>} \cup {<< <<k, v>> >> : k \in {"X", "S"}, v \in {Num(1), Undefined}}
           \cup {<< <<k, v>>, <<l, w>> >> : k \in {"X"}, l \in {"S"},
                                             v \in {Num(1), Undefined}, w \in {Num(1), Undefined}}

NextObject ==
    \/ \E es \in Objects :
         FromObject(es) /\ Within(MaxComposed, 1, MaxCalls)
    \/ \E c \in Containers, token \in {"X", "S", "toString"} :
         cons[c].op = "fromObject" /\ GetService(c, token) /\ Within(MaxComposed, 1, MaxCalls)

SpecObject == Init /\ [][NextObject]_vars

\* The behaviours of a PluginRegistry: up to MaxObservers observers of every
\* kind and up to MaxPlugins plugins, registered in every order.
MaxObservers == 3

MaxPlugins == 3

InRegistry == Len(registry'.observers) <= MaxObservers /\ Len(registry'.plugins) <= MaxPlugins

NextRegistry ==
    \/ \E observer \in {"records", "throws", "observes", "registers"} : Observe(observer) /\ InRegistry
    \/ \E plugin \in {"p", "q"} : RegisterPlugin(plugin) /\ InRegistry
    \/ GetPlugins

SpecRegistry == Init /\ [][NextRegistry]_vars

\* The behaviours of an override that takes its predecessor: S registered
\* over X, fN registered over S, and X registered again on any Container.
MaxFrozen == 5

fN == Injectable("fN", "S", <<"S">>, "object")

NextFrozen ==
    \/ \E c \in Containers, fn \in {fA, fB, fS, fN} :
         Typed(c, fn) /\ Provides(c, fn) /\ Within(MaxFrozen, 1, MaxCalls)
    \/ \E c \in Containers, token \in MergeKeys :
         GetService(c, token) /\ Within(MaxFrozen, 1, MaxCalls)

SpecFrozen == Init /\ [][NextFrozen]_vars

\* The behaviours of a service that depends on an appended token: X an
\* array, fS over X, a function or a class appended to X, and get of either
\* token in either order.
NextOrder ==
    \/ \E c \in Containers, value \in ArrayValues :
         ProvidesValue(c, "X", value) /\ Within(MaxFrozen, 1, MaxCalls)
    \/ \E c \in Containers, fn \in {fS} :
         Typed(c, fn) /\ Provides(c, fn) /\ Within(MaxFrozen, 1, MaxCalls)
    \/ \E c \in Containers :
         "X" \in KeysOf(c) /\ AppendFn(c, fA) /\ Within(MaxFrozen, 1, MaxCalls)
    \/ \E c \in Containers :
         "X" \in KeysOf(c) /\ AppendClass(c, cK) /\ Within(MaxFrozen, 1, MaxCalls)
    \/ \E c \in Containers, token \in MergeKeys :
         GetService(c, token) /\ Within(MaxFrozen, 1, MaxCalls)

SpecOrder == Init /\ [][NextOrder]_vars

\* The behaviours of scoped copies: fA under X and fS under S, registered
\* one by one or through one PartialContainer, copied with none or all of
\* the tokens scoped, and asked.
NextBoth ==
    \/ \E c \in Containers, fn \in {fA, fS} :
         Typed(c, fn) /\ Provides(c, fn) /\ Within(MaxComposed, MaxGrouped, MaxCalls)
    \/ \E p \in Partials, fn \in {fA, fS} :
         PartialProvides(p, fn) /\ Within(MaxComposed, MaxGrouped, MaxCalls)
    \/ \E c \in Containers, p \in Partials :
         /\ pcs[p].tokens # <<>> /\ TypedPartial(c, p)
         /\ ProvidesPartial(c, p) /\ Within(MaxComposed, MaxGrouped, MaxCalls)
    \/ \E c \in Containers : \E scoped \in {{}, KeysOf(c)} :
         Copy(c, scoped) /\ Within(MaxComposed, MaxGrouped, MaxCalls)
    \/ \E c \in Containers, token \in MergeKeys :
         /\ {"X", "S"} \subseteq KeysOf(c)
         /\ GetService(c, token) /\ Within(MaxComposed, MaxGrouped, MaxCalls)

SpecBoth == Init /\ [][NextBoth]_vars

\* The behaviours of a function of two dependencies: X, V on its own or
\* over X, and S over X and V in either order.
fV == Injectable("fV", "V", <<>>, "object")

fVX == Injectable("fVX", "V", <<"X">>, "object")

fP == Injectable("fP", "S", <<"X", "V">>, "object")

fQ == Injectable("fQ", "S", <<"V", "X">>, "object")

NextOrdered ==
    \/ \E c \in Containers, fn \in {fA, fV, fVX, fP, fQ} :
         Typed(c, fn) /\ Provides(c, fn) /\ Within(MaxComposed, 1, MaxCalls)
    \/ \E c \in Containers, token \in {"X", "V", "S"} :
         GetService(c, token) /\ Within(MaxComposed, 1, MaxCalls)

SpecOrdered == Init /\ [][NextOrdered]_vars

\* The behaviours of well-typed registrations: functions without
\* dependencies, over their own token and over another token, registered one
\* by one, through a PartialContainer or with another Container, and asked.
NextTyped ==
    \/ \E c \in Containers, fn \in {fA, fW, fS} :
         Typed(c, fn) /\ Provides(c, fn) /\ Within(MaxComposed, MaxGrouped, MaxCalls)
    \/ \E p \in Partials, fn \in {fA, fW} :
         PartialProvides(p, fn) /\ Within(MaxComposed, MaxGrouped, MaxCalls)
    \/ \E c \in Containers, p \in Partials :
         /\ pcs[p].tokens # <<>> /\ TypedPartial(c, p)
         /\ ProvidesPartial(c, p) /\ Within(MaxComposed, MaxGrouped, MaxCalls)
    \/ \E c \in Containers, other \in Containers :
         /\ KeysOf(other) # {}
         /\ ProvidesContainer(c, other) /\ Within(MaxComposed, MaxGrouped, MaxCalls)
    \/ \E c \in Containers : \E token \in KeysOf(c) \ InheritedKeys :
         GetService(c, token) /\ Within(MaxComposed, MaxGrouped, MaxCalls)

SpecTyped == Init /\ [][NextTyped]_vars

\* Injectable('X', ['S'], (s) => ({ s })): with fS, a function of S over X,
\* X depends on S and S on X.
fC == Injectable("fC", "X", <<"S">>, "object")

\* The behaviours of a cycle between X and S: fA, then fS over X, then fC
\* over S, registered one by one on a Container or gathered in a
\* PartialContainer, and a Container holding both asked at any point.
NextCycle ==
    \/ \E c \in Containers, fn \in {fA, fS, fC} :
         Typed(c, fn) /\ Provides(c, fn) /\ Within(MaxComposed, MaxGrouped, MaxCalls)
    \/ \E p \in Partials, fn \in {fS, fC} :
         PartialProvides(p, fn) /\ Within(MaxComposed, MaxGrouped, MaxCalls)
    \/ \E c \in Containers, p \in Partials :
         /\ pcs[p].tokens # <<>> /\ TypedPartial(c, p)
         /\ ProvidesPartial(c, p) /\ Within(MaxComposed, MaxGrouped, MaxCalls)
    \/ \E c \in Containers : \E token \in {"X", "S"} :
         /\ {"X", "S"} \subseteq KeysOf(c)
         /\ GetService(c, token) /\ Within(MaxComposed, MaxGrouped, MaxCalls)

SpecCycle == Init /\ [][NextCycle]_vars

\* The behaviours of append on whatever is registered: X registered as an
\* array, a number, a string, an object or undefined, or not at all; a value,
\* a function's result or a class's instance appended; and asked.
NextAppended ==
    \/ \E c \in Containers, value \in {Arr(<<>>, 0), Num(1), Str("a")} :
         ProvidesValue(c, "X", value) /\ Within(MaxComposed, 1, MaxCalls)
    \/ \E c \in Containers, fn \in {fA, fU} :
         Provides(c, fn) /\ Within(MaxComposed, 1, MaxCalls)
    \/ \E c \in Containers, value \in {Num(2), Arr(<<Num(1), Num(2)>>, 0)} :
         AppendValue(c, "X", value) /\ Within(MaxComposed, 1, MaxCalls)
    \/ \E c \in Containers :
         AppendFn(c, fA) /\ Within(MaxComposed, 1, MaxCalls)
    \/ \E c \in Containers :
         AppendClass(c, cK) /\ Within(MaxComposed, 1, MaxCalls)
    \/ \E c \in Containers :
         "X" \in KeysOf(c) /\ GetService(c, "X") /\ Within(MaxComposed, 1, MaxCalls)

SpecAppended == Init /\ [][NextAppended]_vars

\* Injectable('X', () => { throw new Error(...) })
fE == Injectable("fE", "X", <<>>, "throws")

\* The behaviours of a function that throws: X made by fA or by fE, which
\* throws, overridden by fW over the earlier X, S made by fS over X, and
\* asked, again and again.
NextThrows ==
    \/ \E c \in Containers, fn \in {fA, fE, fW, fS} :
         Typed(c, fn) /\ Provides(c, fn) /\ Within(MaxContainers, 1, MaxCalls)
    \/ \E c \in Containers : \E token \in KeysOf(c) \ InheritedKeys :
         GetService(c, token) /\ Within(MaxContainers, 1, MaxCalls)

SpecThrows == Init /\ [][NextThrows]_vars

\* The behaviours that hand wrappers from Container to Container: provides
\* of a function, a Container and a PartialContainer, copy, and run, which
\* builds a Container of its own; and any token asked.
NextOwner ==
    \/ \E c \in Containers, fn \in {fA, fS} :
         /\ cons[c].op # "run" /\ Typed(c, fn)
         /\ Provides(c, fn) /\ Within(MaxContainers, MaxPartials, MaxCalls)
    \/ \E c \in Containers, fn \in {fB, fS} :
         /\ cons[c].op # "run" /\ Typed(c, fn)
         /\ RunFn(c, fn) /\ Within(MaxContainers, MaxPartials, MaxCalls)
    \/ \E c \in Containers : \E scoped \in SUBSET KeysOf(c) :
         cons[c].op # "run" /\ Copy(c, scoped) /\ Within(MaxContainers, MaxPartials, MaxCalls)
    \/ \E p \in Partials :
         PartialProvides(p, fB) /\ Within(MaxContainers, MaxPartials, MaxCalls)
    \/ \E c \in Containers, p \in Partials :
         /\ cons[c].op # "run" /\ pcs[p].tokens # <<>>
         /\ ProvidesPartial(c, p) /\ Within(MaxContainers, MaxPartials, MaxCalls)
    \/ \E c \in Containers, other \in Containers :
         /\ cons[c].op # "run" /\ cons[other].op # "run" /\ KeysOf(other) # {}
         /\ ProvidesContainer(c, other) /\ Within(MaxContainers, MaxPartials, MaxCalls)
    \/ \E c \in Containers : \E token \in KeysOf(c) \ InheritedKeys :
         cons[c].op # "run" /\ GetService(c, token) /\ Within(MaxContainers, MaxPartials, MaxCalls)

SpecOwner == Init /\ [][NextOwner]_vars

\* The behaviours that build Containers in every way: provides of a
\* function, a value, a Container and a PartialContainer, copy, and
\* append; and ask each Container for itself.
NextEvery ==
    \/ \E c \in Containers :
         Provides(c, fA) /\ Within(MaxContainers, MaxPartials, MaxCalls)
    \/ \E c \in Containers, value \in ArrayValues :
         ProvidesValue(c, "X", value) /\ Within(MaxContainers, MaxPartials, MaxCalls)
    \/ \E c \in Containers :
         AppendFn(c, fA) /\ Within(MaxContainers, MaxPartials, MaxCalls)
    \/ \E c \in Containers : \E scoped \in SUBSET KeysOf(c) :
         Copy(c, scoped) /\ Within(MaxContainers, MaxPartials, MaxCalls)
    \/ \E p \in Partials :
         PartialProvides(p, fB) /\ Within(MaxContainers, MaxPartials, MaxCalls)
    \/ \E c \in Containers, p \in Partials :
         ProvidesPartial(c, p) /\ Within(MaxContainers, MaxPartials, MaxCalls)
    \/ \E c \in Containers, other \in Containers :
         ProvidesContainer(c, other) /\ Within(MaxContainers, MaxPartials, MaxCalls)
    \/ \E c \in Containers :
         GetService(c, CONTAINER) /\ Within(MaxContainers, MaxPartials, MaxCalls)

SpecEvery == Init /\ [][NextEvery]_vars

\* ------------------------------------------------------- reading the heap

\* How many times the user function behind wrapper m has been applied.
Applied(m) == Cardinality({i \in DOMAIN calls : calls[i].m = m})

\* The applications made by the latest call, as positions of calls.
DuringLast == (last.at + 1)..Len(calls)

\* The wrapper Container c holds under token (0 if none).
Factory(c, token) == cons[c].factories[token]

\* The injectable a wrapper's delegate calls.
FnOf(m) == dels[mem[m].delegate].fn

\* The latest call was get(c, token) from outside and returned a value.
Got(c, token) == last.op = "get" /\ last.c = c /\ last.token = token /\ last.ok = "ok"

\* The Containers built by a call on c, or by a closure holding c as `this`.
Children(c) == {x \in Containers : cons[x].from = c}

\* v is what a call of injectable fn returns, for some arguments.
MadeBy(fn, v) ==
    CASE fn.kind = "fn" /\ fn.ret = "object" -> v.tag = "object" /\ v.fn = fn.name
      [] fn.kind = "fn" /\ fn.ret = "undefined" -> v = Undefined
      [] fn.kind = "fn" /\ fn.ret = "array" -> v.tag = "array" /\ v.args = <<Num(1), Num(2)>>
      [] fn.kind = "value" -> v = fn.val
      [] OTHER -> v.tag = "array"

\* --------------------------------------------------------------- claims

\* C1 (as claimed; the code violates it).  Singleton idempotence: a get of a
\* registered key returns the value the wrapper holds, the same at every
\* call, and the factory registered under the key has been applied exactly
\* once after any number of gets, at most once at any time.
C1_SingletonIdempotence ==
    \A c \in Containers : \A k \in KeysOf(c) :
        /\ Applied(Factory(c, k)) <= 1
        /\ Got(c, k) => Applied(Factory(c, k)) = 1 /\ last.val = mem[Factory(c, k)].memo

\* Container r registers f2 directly on top of f1 under one token, as in
\* c.provides(f1).provides(f2): the Container in between is reachable from
\* nowhere else, so r is the only Container built from it.
Chained(r) ==
    /\ cons[r].op = "provides"
    /\ cons[r].from > 1
    /\ cons[cons[r].from].op = "provides"
    /\ cons[cons[r].from].arg = cons[r].arg
    /\ Children(cons[r].from) = {r}

\* The elements of a sequence.
Range(s) == {s[i] : i \in DOMAIN s}

\* C2.  Override precedence: after c.provides(f1 keyed X).provides(f2 keyed
\* X), where f2 does not depend on X, a get of X on the result returns what
\* f2 returned, held by f2's wrapper, and no get on the result, of any
\* token, applies f1.
C2_OverridePrecedence ==
    \A r \in Containers :
        Chained(r) /\ cons[r].arg \notin Range(FnOf(Factory(r, cons[r].arg)).deps) =>
            LET X == cons[r].arg
            IN /\ Got(r, X) =>
                    /\ MadeBy(FnOf(Factory(r, X)), last.val)
                    /\ last.val = mem[Factory(r, X)].memo
                    /\ DuringLast = {} \/ calls[Len(calls)].m = Factory(r, X)
               /\ last.op = "get" /\ last.c = r =>
                    \A i \in DuringLast : calls[i].m # Factory(cons[r].from, X)

\* C2 witness: X was got from c.provides(fA).provides(fB) and came from fB,
\* fA never having been applied.
C2_Witness ==
    \E r \in Containers :
        /\ Chained(r) /\ cons[r].arg = "X" /\ Got(r, "X")
        /\ FnOf(Factory(r, "X")) = fB
        /\ FnOf(Factory(cons[r].from, "X")) = fA
        /\ Applied(Factory(cons[r].from, "X")) = 0
        /\ last.val.fn = "fB"

\* The wrappers a get of wrapper m's token goes through when its function
\* lists its own token: m, then the wrapper its parent holds, and so on.
RECURSIVE Chain(_)
Chain(m) ==
    LET d == dels[mem[m].delegate]
    IN IF /\ d.kind = "service" /\ d.fn.kind = "fn"
          /\ d.fn.token \in Range(d.fn.deps)
          /\ cons[d.parent].factories[d.fn.token] # 0
       THEN {m} \cup Chain(cons[d.parent].factories[d.fn.token])
       ELSE {m}

\* The wrapper after m in its chain.
Inner(m) == cons[dels[mem[m].delegate].parent].factories[FnOf(m).token]

\* The chain of m ends in a function f0 that does not list its own token.
Grounded(m) == \E m0 \in Chain(m) : FnOf(m0).token \notin Range(FnOf(m0).deps)

\* C3 (as claimed; the code violates it).  Self-override chaining: when X
\* is registered by f0 and then by f1..fn, each listing X among its
\* dependencies, a get of X on the last Container does not overflow the
\* stack, returns fn(..f1(f0())..), each function receiving the value of
\* the one before, and each of f0..fn has been applied exactly once.
C3_SelfOverrideChaining ==
    \A r \in Containers : \A X \in KeysOf(r) :
        Cardinality(Chain(Factory(r, X))) > 1 /\ Grounded(Factory(r, X))
        /\ last.op = "get" /\ last.c = r /\ last.token = X =>
            /\ last.ok = "ok"
            /\ last.val = mem[Factory(r, X)].memo
            /\ \A m \in Chain(Factory(r, X)) :
                 /\ Applied(m) = 1
                 /\ MadeBy(FnOf(m), mem[m].memo)
                 /\ Chain(m) # {m} =>
                      \A i \in DOMAIN FnOf(m).deps :
                          FnOf(m).deps[i] = X => mem[m].memo.args[i] = mem[Inner(m)].memo

\* The newest Container the program holds: the latest one that was not
\* built inside a get.
NewestHeld == CHOOSE c \in Containers :
                 /\ cons[c].op # "inner"
                 /\ \A x \in Containers : x > c => cons[x].op = "inner"

\* What get(c, token) would return in this state.
ValueOf(c, token) == Get(Heap, c, token, MaxDepth).val

\* C4 (as claimed; the code violates it).  Override visibility: when a get
\* of S on the newest Container applies S's function for the first time,
\* every dependency V other than S itself is passed as the value the newest
\* Container gives for V, however S was registered.
C4_OverrideVisibility ==
    \A S \in KeysOf(NewestHeld) :
        LET m == Factory(NewestHeld, S)
        IN Got(NewestHeld, S) /\ (\E i \in DuringLast : calls[i].m = m)
           /\ FnOf(m).kind = "fn" /\ last.val.tag = "object" =>
               \A i \in DOMAIN FnOf(m).deps :
                   FnOf(m).deps[i] # S =>
                       last.val.args[i] = ValueOf(NewestHeld, FnOf(m).deps[i])

\* The PartialContainer a Container was given, and the tokens it holds.
PartialOf(m) == pcs[cons[m].arg]
TokensOf(pc) == {k \in Keys : pc.injectables[k] # NoInjectable}

\* C9.  Merge precedence with a PartialContainer: in m = c.provides(partial),
\* a token X both define is held in m by the partial's definition, bound to
\* c as its parent; a get of X on m returns what the partial's function
\* made, and where that function lists X itself the argument it received
\* is the value c holds for X, made by c's own function.
C9_MergePartialPrecedence ==
    \A m \in Containers :
        cons[m].op = "providesPartial" =>
            \A X \in KeysOf(cons[m].from) \cap TokensOf(PartialOf(m)) :
                LET c == cons[m].from
                    d == dels[mem[Factory(m, X)].delegate]
                IN /\ d.kind = "partial" /\ d.parent = c
                   /\ d.fn = PartialOf(m).injectables[X]
                   /\ Factory(m, X) # Factory(c, X)
                   /\ Got(m, X) =>
                        /\ MadeBy(d.fn, last.val)
                        /\ last.val = mem[Factory(m, X)].memo
                        /\ \A i \in DOMAIN d.fn.deps :
                             d.fn.deps[i] = X =>
                                /\ last.val.args[i] = mem[Factory(c, X)].memo
                                /\ MadeBy(FnOf(Factory(c, X)), last.val.args[i])

\* C9 witness: a Container holding fA under X was given a PartialContainer
\* holding fW under X, and a get of X returned fW's object made from fA's.
C9_Witness ==
    \E m \in Containers :
        /\ cons[m].op = "providesPartial"
        /\ Factory(cons[m].from, "X") # 0
        /\ FnOf(Factory(cons[m].from, "X")) = fA
        /\ PartialOf(m).injectables["X"] = fW
        /\ Got(m, "X")
        /\ last.val.fn = "fW" /\ last.val.args[1].fn = "fA"

\* C10.  Merge precedence with a Container: m = a.provides(other) holds
\* exactly the tokens of a and of other, every token of other with other's
\* wrapper (collisions included), every other token of a with a's wrapper,
\* and a get of one of other's tokens on m returns the value other's
\* wrapper holds, made by other's function.
C10_MergeContainerPrecedence ==
    \A m \in Containers :
        cons[m].op = "providesContainer" =>
            LET a == cons[m].from
                other == cons[m].arg
            IN /\ KeysOf(m) = KeysOf(a) \cup KeysOf(other)
               /\ \A k \in KeysOf(other) :
                    /\ Factory(m, k) = Factory(other, k)
                    /\ Got(m, k) =>
                         /\ last.val = mem[Factory(other, k)].memo
                         /\ MadeBy(FnOf(Factory(other, k)), last.val)
               /\ \A k \in KeysOf(a) \ KeysOf(other) : Factory(m, k) = Factory(a, k)

\* C10 witness: a holds fA under X, other holds fB under X, and a get of X
\* on a.provides(other) returned fB's object.
C10_Witness ==
    \E m \in Containers :
        /\ cons[m].op = "providesContainer"
        /\ Factory(cons[m].from, "X") # 0 /\ Factory(cons[m].arg, "X") # 0
        /\ FnOf(Factory(cons[m].from, "X")) = fA
        /\ FnOf(Factory(cons[m].arg, "X")) = fB
        /\ Got(m, "X") /\ last.val.fn = "fB"

\* A value with an identity of its own: an object or array a function made.
IsInstance(v) == v.tag \in {"object", "array"} /\ v.ref > 0

\* C5 (as claimed; the code violates it).  Scoped copy isolation: in
\* b = a.copy([X]) the copy holds X by a wrapper of its own around the same
\* factory; the factory is applied at most once for a and at most once for
\* b, exactly once for the Container a get of X has just returned from, and
\* when both have resolved X to instances the two instances are distinct.
C5_ScopedCopyIsolation ==
    \A b \in Containers :
        cons[b].op = "copy" =>
            \A X \in cons[b].arg :
                LET ma == Factory(cons[b].from, X)
                    mb == Factory(b, X)
                IN /\ ma # mb /\ mem[ma].delegate = mem[mb].delegate
                   /\ Applied(ma) <= 1 /\ Applied(mb) <= 1
                   /\ Got(b, X) => Applied(mb) = 1
                   /\ Got(cons[b].from, X) => Applied(ma) = 1
                   /\ IsInstance(mem[ma].memo) /\ IsInstance(mem[mb].memo) =>
                        mem[ma].memo # mem[mb].memo

\* C6 (as claimed; the code violates it).  Copy sharing: in
\* b = a.copy(scoped) a token Y of a that is not scoped is held by b with
\* a's wrapper, a get of Y on either returns what a get on the other would
\* return, and the factory is applied at most once in total.
C6_CopySharing ==
    \A b \in Containers :
        cons[b].op = "copy" =>
            \A Y \in KeysOf(cons[b].from) \ cons[b].arg :
                LET a == cons[b].from
                IN /\ Factory(b, Y) = Factory(a, Y)
                   /\ Applied(Factory(a, Y)) <= 1
                   /\ Got(b, Y) => last.val = ValueOf(a, Y)
                   /\ Got(a, Y) => last.val = ValueOf(b, Y)

\* The methods that append to the array under a token.
AppendOps == {"append", "appendValue", "appendClass"}

\* Container d was built by appending to the array under token S.
Appends(d, S) == cons[d].op \in AppendOps /\ cons[d].arg = S

\* The Containers that appended to S on the way to d, in the order of the
\* calls, through builds that left S as it was.
RECURSIVE AppendChain(_, _)
AppendChain(d, S) ==
    IF Appends(d, S) THEN Append(AppendChain(cons[d].from, S), d)
    ELSE IF cons[d].from > 0 /\ cons[d].op # "copy"
            /\ Factory(d, S) = Factory(cons[d].from, S)
         THEN AppendChain(cons[d].from, S)
         ELSE <<>>

\* The array the first append of the chain of d appended to.
BaseArray(d, S) ==
    mem[Factory(cons[AppendChain(d, S)[1]].from, S)].memo

\* e is the element the append that built d produced: the value of
\* appendValue, or what the function or class of append, appendClass made.
ElementOf(d, S, e) ==
    LET fn == FnOf(Factory(d, S))
    IN IF fn.kind = "cvalue" THEN e = fn.val
       ELSE MadeBy(Injectable(fn.name, fn.token, fn.ideps, fn.ret), e)

\* C7 (as claimed; the code violates it).  Append ordering: after appends
\* producing e1..en on the array A0 under S, a get of S returns A0 followed
\* by e1..en in the order of the calls.
C7_AppendOrdering ==
    \A d \in Containers : \A S \in KeysOf(d) :
        Appends(d, S) /\ Got(d, S) /\ IsArray(BaseArray(d, S)) =>
            LET A0 == BaseArray(d, S).args
                ch == AppendChain(d, S)
            IN /\ IsArray(last.val)
               /\ Len(last.val.args) = Len(A0) + Len(ch)
               /\ \A i \in 1..Len(A0) : last.val.args[i] = A0[i]
               /\ \A i \in 1..Len(ch) : ElementOf(ch[i], S, last.val.args[Len(A0) + i])

\* C8 (as claimed; the code violates it).  Each append grows the array by
\* exactly one element: a get of S on the Container an append built returns
\* an array one longer than the array its receiver holds under S.
C8_AppendGrowsByOne ==
    \A d \in Containers : \A S \in KeysOf(d) :
        Appends(d, S) /\ Got(d, S) /\ IsArray(mem[Factory(cons[d].from, S)].memo) =>
            /\ IsArray(last.val)
            /\ Len(last.val.args) = Len(mem[Factory(cons[d].from, S)].memo.args) + 1

\* C11 (as claimed; the code violates it).  Services merged from a
\* Container are shared: in m = a.provides(other), for every token k of
\* other, a get of k on m returns what a get on other would return and the
\* reverse, and k's factory has been applied at most once in total.
C11_MergedServicesShared ==
    \A m \in Containers :
        cons[m].op = "providesContainer" =>
            \A k \in KeysOf(cons[m].arg) :
                /\ Applied(Factory(cons[m].arg, k)) + (IF Factory(m, k) = Factory(cons[m].arg, k)
                                                       THEN 0 ELSE Applied(Factory(m, k))) <= 1
                /\ Got(m, k) => last.val = ValueOf(cons[m].arg, k)
                /\ Got(cons[m].arg, k) => last.val = ValueOf(m, k)

\* Containers x and y were each given the same PartialContainer.
SamePartial(x, y) ==
    /\ x # y
    /\ cons[x].op = "providesPartial" /\ cons[y].op = "providesPartial"
    /\ cons[x].arg = cons[y].arg

\* C12 (as claimed; the code violates it).  Services of a PartialContainer
\* are scoped per destination: when one PartialContainer defining A is
\* given to X and to Y, each holds A by a wrapper of its own around the
\* PartialContainer's function, the function is applied once for X and
\* once for Y however often A is got, and the instances are distinct.
C12_PartialScopedPerDestination ==
    \A x \in Containers : \A y \in Containers :
        SamePartial(x, y) =>
            \A A \in TokensOf(PartialOf(x)) :
                /\ Factory(x, A) # Factory(y, A)
                /\ FnOf(Factory(x, A)) = PartialOf(x).injectables[A]
                /\ Applied(Factory(x, A)) <= 1
                /\ Got(x, A) => Applied(Factory(x, A)) = 1
                /\ IsInstance(mem[Factory(x, A)].memo) /\ IsInstance(mem[Factory(y, A)].memo) =>
                     mem[Factory(x, A)].memo # mem[Factory(y, A)].memo

\* C13 (as claimed; the code violates it).  KeyNotFound: a get of a token
\* that is not the sentinel and that the Container does not hold throws
\* the Error whose message names the token, and returns no value.
C13_KeyNotFound ==
    last.op = "get" /\ last.token # CONTAINER /\ last.token \notin KeysOf(last.c) =>
        last.ok = "KeyNotFound" /\ last.val = Error(last.token)

\* C14.  Sentinel key: on every Container, however it was built, a get of
\* CONTAINER returns that Container itself and applies no function.
C14_SentinelKey ==
    last.op = "get" /\ last.token = CONTAINER =>
        last.ok = "ok" /\ last.val = Con(last.c) /\ DuringLast = {}

\* C14 witness: the sentinel was got from a Container that a merge, a copy
\* or an append built, and that Container came back.
C14_Witness ==
    /\ last.op = "get" /\ last.token = CONTAINER /\ last.val = Con(last.c)
    /\ cons[last.c].op \in {"providesContainer", "providesPartial", "copy", "append"}
    /\ KeysOf(last.c) # {}

\* What a value is made of, whichever references its objects have.
RECURSIVE Shape(_)
Shape(v) ==
    IF v.tag \in {"object", "array"}
    THEN [v EXCEPT !.ref = 0, !.args = [i \in DOMAIN v.args |-> Shape(v.args[i])]]
    ELSE v

\* C15 (as claimed; the code violates it).  run leaves the Container
\* unchanged: c.run(fn) and c.run(partialContainer) return c itself, leave
\* c's keys and factories as they were, and every key of c resolves after
\* the run to the value it would have resolved to before it, also when what
\* is run is registered under a key c holds.
C15_RunLeavesUnchanged ==
    [][last'.op = "run" =>
         LET c == last'.c
         IN /\ last'.ok = "ok" => last'.val = Con(c)
            /\ cons'[c] = cons[c]
            /\ \A k \in KeysOf(c) : Shape(Get(Heap', c, k, MaxDepth).val) = Shape(ValueOf(c, k))]_vars


\* The Container the latest run built and asked.
RunContainer == CHOOSE t \in Containers :
                   /\ cons[t].op = "run" /\ cons[t].from = last.c
                   /\ \A x \in Containers : x > t => cons[x].op = "inner"

\* How many times the user function behind wrapper m was applied by the
\* latest call.
AppliedDuringLast(m) == Cardinality({i \in DuringLast : calls[i].m = m})

\* The tokens whose wrappers the latest run built: the function's token, or
\* the tokens of the PartialContainer.
RunTokens ==
    IF last.token # "" THEN {last.token} ELSE TokensOf(pcs[cons[RunContainer].arg])

\* C16 (as claimed; the code violates it).  run forces eager resolution:
\* when c.run(fn) or c.run(partialContainer) returns, the function, or
\* every function of the PartialContainer, has been applied exactly once by
\* the run, and every service of c the run resolved is left cached in c: a
\* get of it on c applies no function.
C16_RunForcesResolution ==
    last.op = "run" /\ last.ok = "ok" =>
        /\ \A k \in RunTokens : AppliedDuringLast(Factory(RunContainer, k)) = 1
        /\ \A k \in KeysOf(last.c) :
             (\E i \in DuringLast : calls[i].m = Factory(last.c, k)) =>
                 Get(Heap, last.c, k, MaxDepth).H.calls = calls


\* C17.  Intra-partial precedence: in m = c.provides(partial), where the
\* PartialContainer defines S and a dependency D of S, and c defines D too,
\* a get of S on m returns an object whose D argument is the value m holds
\* for D, made by the PartialContainer's function for D and held by a
\* wrapper that is not c's.
C17_IntraPartialPrecedence ==
    \A m \in Containers :
        cons[m].op = "providesPartial" =>
            \A S \in TokensOf(PartialOf(m)) :
                LET c == cons[m].from
                    pc == PartialOf(m)
                    fn == pc.injectables[S]
                IN Got(m, S) /\ last.val.tag = "object" =>
                     \A i \in DOMAIN fn.deps :
                         LET D == fn.deps[i]
                         IN D # S /\ D \in TokensOf(pc) /\ D \in KeysOf(c) =>
                              /\ last.val.args[i] = mem[Factory(m, D)].memo
                              /\ MadeBy(pc.injectables[D], last.val.args[i])
                              /\ Factory(m, D) # Factory(c, D)
                              /\ last.val.args[i] # mem[Factory(c, D)].memo

\* C17 witness: a Container holding fA under X was given a PartialContainer
\* holding fB under X and fS under S, and a get of S returned fS's object
\* made from fB's.
C17_Witness ==
    \E m \in Containers :
        /\ cons[m].op = "providesPartial"
        /\ Factory(cons[m].from, "X") # 0
        /\ FnOf(Factory(cons[m].from, "X")) = fA
        /\ PartialOf(m).injectables["X"] = fB
        /\ PartialOf(m).injectables["S"] = fS
        /\ Got(m, "S")
        /\ last.val.fn = "fS" /\ last.val.args[1].fn = "fB"


\* PartialContainer pc re-registers token X: some PartialContainer holds
\* another function under X, and pc is that one with X replaced.
ReRegisters(pc, X) ==
    \E q \in Partials :
        /\ pcs[q].injectables[X] \notin {NoInjectable, pc.injectables[X]}
        /\ pc.injectables = [pcs[q].injectables EXCEPT ![X] = pc.injectables[X]]
        /\ pc.tokens = pcs[q].tokens

ProvidesOps == {"provides", "providesClass", "providesValue",
                "providesContainer", "providesPartial"}

\* C19 (as claimed; the code violates it).  Resolved services are
\* inherited: where d is derived from c by a provides that leaves token k
\* with c's wrapper, and k has been resolved before, a get of k on d
\* returns the instance the wrapper holds and applies k's function no
\* more, whatever else the derivation registered.
C19_ResolvedInherited ==
    \A d \in Containers :
        cons[d].op \in ProvidesOps =>
            \A k \in KeysOf(cons[d].from) :
                LET c == cons[d].from
                    w == Factory(c, k)
                IN Factory(d, k) = w /\ Got(d, k)
                   /\ (\E i \in 1..last.at : calls[i].m = w) =>
                       /\ last.val = mem[w].memo
                       /\ DuringLast = {}
                       /\ Applied(w) = 1


\* The calls that derive a Container from a Container.
DeriveOps == ProvidesOps \cup {"copy", "append", "appendValue", "appendClass"}

\* C20 (as claimed; the code violates it).  Containers are logically
\* immutable: a call that derives a Container from c leaves c's keys and
\* factories as they were, and every key of c resolves after the call to
\* the value it would have resolved to before it.
C20_LogicallyImmutable ==
    [][last'.op \in DeriveOps =>
         LET c == last'.c
         IN /\ cons'[c] = cons[c]
            /\ \A k \in KeysOf(c) :
                 Shape(Get(Heap', c, k, MaxDepth).val) = Shape(ValueOf(c, k))]_vars


\* C21 (as claimed; the code violates it).  provides(fn) returns a new
\* Container that holds exactly the receiver's tokens and fn's token; the
\* receiver holds what it held, and a get on the receiver of a token the
\* provides added throws the Error that names the token.
C21_ProvidesAddsOneKey ==
    \A d \in Containers :
        cons[d].op = "provides" =>
            LET c == cons[d].from
                k == cons[d].arg
            IN /\ d # c
               /\ KeysOf(d) = KeysOf(c) \cup {k}
               /\ \A t \in KeysOf(c) \ {k} : Factory(d, t) = Factory(c, t)
               /\ k \notin KeysOf(c) /\ last.op = "get" /\ last.c = c /\ last.token = k =>
                    last.ok = "KeyNotFound" /\ last.val = Error(k)


\* Application i of the latest call was needed by it: it is the service the
\* call asked for, or another function applied by the call lists its token.
Needed(i) ==
    \/ last.op = "get" /\ calls[i].m = Factory(last.c, last.token)
    \/ last.op = "run" /\ \E k \in RunTokens : calls[i].m = Factory(RunContainer, k)
    \/ \E j \in DuringLast \ {i} :
         dels[calls[i].d].fn.token \in Range(dels[calls[j].d].fn.deps)

\* C22.  Laziness: a call that is no get and no run applies no function,
\* whichever way it builds a Container or a PartialContainer; a get or run
\* that returns has applied only functions it needed, the service asked for
\* and the dependencies of functions it applied.
C22_Laziness ==
    [][/\ last'.op \notin {"get", "run"} => calls' = calls
       /\ last'.op \in {"get", "run"} /\ last'.ok = "ok" =>
            \A i \in DuringLast' : Needed(i)']_vars

\* C22 witness: nothing was applied while the Containers were built, and
\* the first get of S applied S's function and the function of its
\* dependency.
C22_Witness ==
    \E c \in Containers :
        /\ Got(c, "S") /\ last.at = 0 /\ Len(calls) = 2
        /\ cons[c].from > 1
        /\ \A i \in DuringLast : Needed(i)


C24_ArityValidation ==
    last.op = "Injectable" =>
        LET a == last.c
            fn == IF a[1][1] = "function" THEN a[1] ELSE a[2]
            deps == IF a[1][1] = "array" THEN a[1][2] ELSE <<>>
        IN fn[1] = "function" =>
             /\ last.ok = "TypeError" <=> Len(fn[2]) # Len(deps)
             /\ last.ok = "ok" => last.val.token = last.token /\ last.val.deps = deps


\* C25 (as claimed; the code violates it).  fromObject: for c =
\* Container.fromObject(m), c.get(k) returns m[k] for every property k of
\* m, and get of a token that is not a property of m throws KeyNotFound.
C25_FromObject ==
    \A c \in Containers :
        cons[c].op = "fromObject" /\ last.op = "get" /\ last.c = c =>
            /\ \A i \in DOMAIN cons[c].arg :
                 cons[c].arg[i][1] = last.token =>
                     last.ok = "ok" /\ last.val = cons[c].arg[i][2]
            /\ (\A i \in DOMAIN cons[c].arg : cons[c].arg[i][1] # last.token) =>
                     last.ok = "KeyNotFound" /\ last.val = Error(last.token)

\* The observer calls made for register call j, in order.
NotifiedOf(j) == SelectSeq(registry.notified, LAMBDA e : e.call = j)

\* C26 (as claimed; the code violates it).  PluginRegistry notification:
\* register(p) appends p to the plugin list and calls every observer
\* registered before that call exactly once with p, in the order they were
\* registered; an observer registered later is never called with p; and
\* getPlugins returns every registered plugin in registration order.
C26_Notification ==
    /\ \A j \in DOMAIN registry.begun :
         /\ registry.plugins[j] = registry.begun[j].plugin
         /\ NotifiedOf(j) = [i \in 1..registry.begun[j].n |-> [call |-> j, o |-> i]]
    /\ last.op = "getPlugins" =>
         last.val = [j \in DOMAIN registry.begun |-> registry.begun[j].plugin]

\* Value v is what token k gives when computed from the registrations of
\* Container p alone: made by p's function for k, from the values p's
\* registrations give for its dependencies, its own token taken from the
\* Container the function was registered on.
RECURSIVE AsRegistered(_, _, _)
AsRegistered(p, k, v) ==
    LET m == Factory(p, k)
        fn == FnOf(m)
    IN /\ MadeBy(fn, v)
       /\ Len(v.args) = Len(fn.deps)
       /\ \A i \in DOMAIN fn.deps :
            IF fn.deps[i] = k
            THEN AsRegistered(dels[mem[m].delegate].parent, k, v.args[i])
            ELSE AsRegistered(p, fn.deps[i], v.args[i])

\* C27 (as claimed; the code violates it).  Frozen predecessor snapshot:
\* when fN, keyed S and depending on S, is registered on Container p, the
\* predecessor passed to fN is the value of S computed from p as it was at
\* that registration, whatever was registered afterwards on the new
\* Container or on other Containers derived from p.
C27_FrozenPredecessor ==
    \A c \in Containers :
        Got(c, "S") /\ FnOf(Factory(c, "S")) = fN =>
            AsRegistered(dels[mem[Factory(c, "S")].delegate].parent, "S", last.val.args[1])

\* No service has been resolved yet.
Unresolved == calls = <<>> /\ \A m \in DOMAIN mem : mem[m].memo = Undefined

\* C28 (as claimed; the code violates it).  Resolution order independence:
\* on a Container c none of whose services has been resolved, get(k)
\* returns the same value whether k is resolved first or after another
\* token j of c, also when a token of c was registered with append or
\* appendClass and another service of c depends on it.
C28_OrderIndependence ==
    Unresolved =>
        \A c \in Containers : \A k \in KeysOf(c) \ InheritedKeys : \A j \in KeysOf(c) \ InheritedKeys :
            LET first == Get(Heap, c, k, MaxDepth)
                after == Get(Get(Heap, c, j, MaxDepth).H, c, k, MaxDepth)
            IN after.ok = first.ok /\ Shape(after.val) = Shape(first.val)

\* Tokens k and t of Container b were both registered with provides, or both
\* came from one getFactories of one PartialContainer.
SameOrigin(b, k, t) ==
    LET dk == dels[mem[Factory(b, k)].delegate]
        dt == dels[mem[Factory(b, t)].delegate]
    IN \/ dk.kind = "service" /\ dt.kind = "service"
       \/ dk.kind = "partial" /\ dt.kind = "partial" /\ dk.sibs = dt.sibs /\ dk.sibs[t] # 0

\* C29 (as claimed; the code violates it).  Scoped dependencies in a copy:
\* for b = a.copy(scoped) with S and its dependency X both scoped, the X
\* passed to S's function when b.get(S) applies it is the instance b.get(X)
\* gives and not the one a.get(X) gives, whether S and X were registered
\* with provides or came from one PartialContainer.
C29_ScopedDependencies ==
    \A b \in Containers :
        /\ cons[b].op = "copy" /\ {"X", "S"} \subseteq cons[b].arg
        /\ SameOrigin(b, "S", "X")
        /\ Got(b, "S") /\ AppliedDuringLast(Factory(b, "S")) = 1
        => /\ last.val.args[1] = ValueOf(b, "X")
           /\ last.val.args[1] # ValueOf(cons[b].from, "X")

\* The values the applications of the latest call returned, in the order
\* the functions were called.
MadeNow == [i \in 1..(Len(calls) - last.at) |-> mem[calls[last.at + i].m].memo]

\* The depth-first, left-to-right walk of value v, each value listed when
\* its function is called: the walks of its arguments in list order, then
\* v; a value already listed in done, or made before the latest call, is
\* not walked again.
RECURSIVE Walk(_, _), WalkEach(_, _, _)
Walk(v, done) ==
    IF (\E i \in DOMAIN done : done[i] = v) \/ (\A i \in DOMAIN MadeNow : MadeNow[i] # v)
    THEN done
    ELSE Append(WalkEach(v.args, 1, done), v)

WalkEach(args, i, done) ==
    IF i > Len(args) THEN done ELSE WalkEach(args, i + 1, Walk(args[i], done))

\* C30.  Dependency resolution is depth-first in declared order: a get
\* calls the functions not yet resolved in the order of the depth-first
\* walk of their dependencies from left to right, every dependency's
\* function before the next one's and before the dependent function's, and
\* each function receives one value per dependency, made by a function of
\* that dependency's token, in list order.
C30_DepthFirstInOrder ==
    last.op = "get" /\ last.ok = "ok" /\ last.token \in {"X", "V", "S"} =>
        /\ MadeNow = Walk(last.val, <<>>)
        /\ \A i \in DuringLast :
             LET fn == dels[calls[i].d].fn
                 v == mem[calls[i].m].memo
             IN /\ Len(v.args) = Len(fn.deps)
                /\ \A j \in DOMAIN fn.deps :
                     \E m \in DOMAIN mem :
                        FnOf(m).token = fn.deps[j] /\ mem[m].memo = v.args[j]

C30_Witness ==
    \E c \in Containers :
        /\ Got(c, "S") /\ last.at = 0
        /\ FnOf(Factory(c, "S")) = fQ /\ FnOf(Factory(c, "V")) = fVX
        /\ [i \in 1..Len(calls) |-> dels[calls[i].d].fn.token] = <<"X", "V", "S">>
        /\ last.val.args[1].fn = "fVX" /\ last.val.args[2].fn = "fA"

\* C31.  Termination: on a Container built by well-typed registrations
\* (every dependency registered, no cycle between distinct tokens) every
\* get of a registered token returns a value, and a get that finds nothing
\* resolved applies each function of a chain of self-overrides once: n + 1
\* applications for n overrides.
C31_Termination ==
    \A c \in Containers :
        last.op = "get" /\ last.c = c /\ last.token \in KeysOf(c) \ InheritedKeys =>
            /\ last.ok = "ok"
            /\ LET m == Factory(c, last.token)
               IN /\ last.at = 0 /\ Grounded(m)
                  /\ \A m0 \in Chain(m) : Range(FnOf(m0).deps) \subseteq {last.token}
                  => /\ Len(calls) = Cardinality(Chain(m))
                     /\ \A m0 \in Chain(m) : Applied(m0) = 1

C31_Witness ==
    \E c \in Containers :
        /\ Got(c, "X") /\ last.at = 0
        /\ Cardinality(Chain(Factory(c, "X"))) = 3
        /\ Len(calls) = 3

\* PartialContainer.ts:130-133: the tokens that the functions of a
\* PartialContainer resolve with parent.get(t), a function's own token and
\* the tokens the PartialContainer does not define.
FromParent(pc) ==
    {t \in Keys : \E k \in TokensOf(pc) :
        /\ t \in Range(pc.injectables[k].deps)
        /\ (t = k \/ t \notin TokensOf(pc))}

\* C37.  Required-key bookkeeping is sound: after any sequence of provides
\* calls on a PartialContainer, every token that its functions resolve from
\* the parent Container, a function's own token or a token the
\* PartialContainer does not define, is in its Dependencies set.
C37_RequiredKeysSound ==
    \A p \in Partials : FromParent(pcs[p]) \subseteq pcs[p].required

\* The wrapper that wrapper m reaches for its dependency t (Container.ts:528,
\* PartialContainer.ts:130-134), 0 if there is none.
DepTarget(m, t) ==
    LET del == dels[mem[m].delegate]
    IN IF del.kind = "service"
       THEN IF t = del.fn.token THEN cons[del.parent].factories[t]
            ELSE cons[mem[m].thisArg].factories[t]
       ELSE IF t = del.fn.token THEN cons[del.parent].factories[t]
            ELSE IF del.sibs[t] # 0 THEN del.sibs[t]
                 ELSE cons[del.parent].factories[t]

DepTargets(m) == {DepTarget(m, t) : t \in Range(FnOf(m).deps) \cap Keys} \ {0}

RECURSIVE Reaches(_, _)
Reaches(ms, n) ==
    IF n = 0 THEN ms
    ELSE Reaches(ms \cup UNION {DepTargets(m) : m \in ms}, n - 1)

\* The wrappers of the cycle that wrapper m lies on, {} if it lies on none.
CycleOf(m) ==
    LET after == Reaches(DepTargets(m), Len(mem))
    IN IF m \in after
       THEN {m0 \in after : m \in Reaches(DepTargets(m0), Len(mem))}
       ELSE {}

C33_SingleAssignment ==
    [][/\ \A m \in DOMAIN mem :
            mem[m].memo # Undefined => mem'[m].memo = mem[m].memo
       /\ \A c \in Containers :
            /\ last'.op = "get" /\ last'.c = c /\ last'.token = "X"
            /\ last'.ok = "ok" /\ last' # last
            /\ FnOf(Factory(c, "X")).ret = "reentrant"
            /\ last'.val.args[2] # Undefined
            => mem'[Factory(c, "X")].memo = last'.val.args[2]]_vars

\* C34.  Append on a non-array: when the Container that append, appendClass
\* or appendValue was called on holds no array under the token (another
\* value, or nothing), get of the token on the Container returned throws
\* instead of returning a value.
C34_AppendOnNonArray ==
    \A c \in Containers :
        /\ last.op = "get" /\ last.c = c /\ last.token = "X"
        /\ cons[c].op \in {"append", "appendClass", "appendValue"}
        => LET before == Get(Heap, cons[c].from, "X", MaxDepth)
           IN before.ok # "ok" \/ ~IsArray(before.val) => last.ok # "ok"

\* C35.  Append leaves the predecessor untouched: for d = c.appendValue(X, e),
\* c.append(fn) or c.appendClass(cls) on a Container c holding an array under
\* X, a get of X on d returns an array other than the one c.get(X) returns,
\* and c.get(X) returns the same contents before and after it, without e.
C35_PredecessorUntouched ==
    [][\A d \in Containers :
         /\ last'.op = "get" /\ last' # last /\ last'.c = d /\ last'.token = "X"
         /\ last'.ok = "ok"
         /\ cons[d].op \in {"append", "appendClass", "appendValue"}
         => LET before == Get(Heap, cons[d].from, "X", MaxDepth)
                after == Get(Heap', cons[d].from, "X", MaxDepth)
            IN before.ok = "ok" /\ IsArray(before.val)
               => /\ after.ok = "ok"
                  /\ after.val.args = before.val.args
                  /\ Len(last'.val.args) > Len(after.val.args)
                  /\ last'.val.ref # after.val.ref]_vars

C35_Witness ==
    \E d \in Containers :
        /\ Got(d, "X") /\ cons[d].op = "appendValue" /\ last.at < Len(calls)
        /\ cons[cons[d].from].op = "appendValue"
        /\ mem[Factory(cons[d].from, "X")].memo # Undefined
        /\ Len(last.val.args) = Len(mem[Factory(cons[d].from, "X")].memo.args) + 1

\* C36.  A function that throws is not cached: when the function of k, or
\* the resolution of one of its dependencies, throws during get(k), the memo
\* of k's wrapper stays empty and get throws what was thrown; a get(k) that
\* follows runs the function that threw again and throws again.
C36_ThrowNotCached ==
    [][/\ /\ last.op = "get" /\ last.ok = "Error"
          /\ last'.op = "get" /\ last'.c = last.c /\ last'.token = last.token
          => last'.ok = "Error" /\ Len(calls') = Len(calls) + 1
       /\ \A c \in Containers :
         /\ last'.op = "get" /\ last'.c = c /\ last'.ok # "ok"
         /\ last'.token \in KeysOf(c) \ InheritedKeys
         => /\ mem'[Factory(c, last'.token)].memo = Undefined
            /\ last'.ok = "Error" /\ last'.val = Thrown("fE")
            /\ Len(calls') = Len(calls) + 1
            /\ FnOf(calls'[Len(calls')].m) = fE
            /\ \A m \in DOMAIN mem : mem[m].memo = Undefined /\ mem'[m].memo # Undefined
                   => FnOf(m).token # last'.token]_vars

C36_Witness ==
    \E c \in Containers :
        /\ last.op = "get" /\ last.c = c /\ last.token = "S" /\ last.ok = "Error"
        /\ "X" \in KeysOf(c) /\ Applied(Factory(c, "X")) = 2
        /\ mem[Factory(c, "S")].memo = Undefined

\* The Containers whose factories map holds wrapper m.
Holders(m) == {c \in Containers : \E k \in Keys : cons[c].factories[k] = m}

\* C38.  Owner invariant: every wrapper in the factories map of the
\* Container constructed last has that Container as thisArg, and at any time
\* the thisArg of a wrapper is the Container constructed last among those
\* whose factories map holds it, whichever Container was asked.
C38_OwnerInvariant ==
    \A m \in DOMAIN mem :
        Holders(m) # {} =>
            /\ mem[m].thisArg \in Holders(m)
            /\ \A c \in Holders(m) : c <= mem[m].thisArg

C38_Witness ==
    \E m \in DOMAIN mem, c \in Containers :
        /\ cons[c].op = "run" /\ mem[m].thisArg = c
        /\ Cardinality(Holders(m)) = 2
        /\ last.op = "get" /\ last.c \in Holders(m) \ {c} /\ last.ok = "ok"
        /\ mem[m].memo = last.val

====
